---- MODULE Spec2Model ----
(***************************************************************************)
(* Session synchronisation protocol of the ghost story generator:          *)
(*   backend  StoryManager (session registry and segment log),             *)
(*            setupWebSocketHandlers (rooms, fan-out, AI co-author hook)   *)
(*   frontend WebSocketClient with its OfflineQueue.                       *)
(* ManagerSpec drives StoryManager directly, GatewaySpec drives the        *)
(* socket handlers from raw connections, Spec runs a WebSocketClient       *)
(* against the gateway over a transport that can drop.                     *)
(***************************************************************************)
EXTENDS Integers, Sequences, FiniteSets, TLC

\* ------------------------------------------------------------------ bounds
MaxSessions == 1    \* createSession calls explored
MaxRooms == 2       \* sessions created where a connection moves between rooms (RoomSpec)
MaxSegments == 4    \* segments (user and AI) created by the gateway
MaxRequests == 4    \* events the server handles (GatewaySpec counts closes and expiries too)
MaxClock == 1       \* server clock readings 0..MaxClock
MaxDirect == 3      \* direct StoryManager.addSegment calls (ManagerSpec)
MaxStamp == 2       \* timestamps 0..MaxStamp of directly added segments
MaxCalls == 3       \* WebSocketClient.addSegment calls
MaxDrops == 1       \* transport drops of the client's connection
MaxClientClock == 1 \* client clock readings 0..MaxClientClock
MaxQueue == 3       \* entries of an OfflineQueue driven directly (QueueSpec)
MaxBackoff == 11    \* getNextDelay is called directly while attempt < MaxBackoff
MaxTimers == 3      \* timers armed on a ReconnectionManager driven directly
MaxLog == 7         \* segment ids issued in CadenceSpec
MaxCadence == 8     \* events the server handles in CadenceSpec
MaxTokens == 3      \* invite tokens generated
MaxCreated == 3     \* sessions created in CreateSpec
MaxLocal == 2       \* timers handed out before the last local call (DisconnectSpec)
MaxOverlap == 2     \* transport drops in OverlapSpec

\* ------------------------------------------------------------- universes
Conns == {1, 2}                       \* connections / socket ids
Clients == {1}                        \* connections held by a WebSocketClient
Peers == {2}                          \* connections driven as raw sockets
\* OfflineQueue instances: that of client 1 and that of a second
\* WebSocketClient, which another useWebSocket caller created in the same page
Instances == {1, 2}
UserName(c) == IF c = 1 THEN "ann" ELSE "bob"   \* the name a connection uses
\* contents a connection sends: its own text, or markup only (invalid)
ContentsOf(c) == {IF c = 1 THEN <<"A">> ELSE <<"B">>, <<"<b>">>}
SessionIds == 1..MaxSessions + 1      \* the last id is never created
Titles == {"Test"}                    \* session titles
Formats == {"text", "html"}           \* export formats
TokenIds == 1..MaxTokens + 1         \* the last token is never issued
\* the names a join may carry: those of the connections, or none
Names == {UserName(c) : c \in Conns} \cup {""}
\* what a segment:add may carry: empty, blank, markup only, too long, profane,
\* profane among other words, and text that is in order
SubmittedContents ==
  {<<>>, <<" ">>, <<"<b>">>, <<"LONG">>, <<"damn">>, <<"A", " ", "crap">>, <<"A">>}
NoSession == [id |-> 0, title |-> "", participants |-> <<>>, segments |-> <<>>]
AI_COAUTHOR == 0                      \* contributorId 'ai-coauthor'

\* an AICoAuthor on which generateHorrorElement has not been called: model says
\* whether an API key was given, outcomes holds what the provider calls of
\* the current generateHorrorElement returned
NoGeneration == [model |-> TRUE, phase |-> "idle", attempt |-> 0, outcomes |-> <<>>]

\* ------------------------------------------------------------- variables
VARIABLES
  sessions,       \* StoryManager.sessions: Map id -> StorySession
  sessionTimers,  \* StoryManager.sessionTimers: ids with an armed timeout
  nextSession,    \* number of ids issued by randomUUID() for sessions
  nextSegId,      \* number of ids issued by randomUUID() for segments
  now,            \* server wall clock (new Date())
  rooms,          \* io.sockets.adapter: connection -> set of rooms joined
  sockData,       \* socket.data: connection -> [sessionId, participantId]
  online,         \* connection -> the server holds a live socket for it
  inbox,          \* connection -> events the server emitted to it
  aiTasks,        \* pending generateHorrorElement calls (session ids)
  aiCalls,        \* generateHorrorElement calls made so far, per session
  inviteTokens,   \* the Map of invite tokens: token -> session id
  nextToken,      \* tokens randomBytes has produced so far
  gen,            \* the generateHorrorElement call of an AICoAuthor driven directly
  nreq,           \* events handled so far by the server
  ret,            \* return value of the last direct StoryManager call
  connected,      \* client -> socket.connected
  queue,          \* client -> OfflineQueue.queue
  clientNow,      \* client wall clock (new Date() in enqueue)
  context,        \* client -> [sessionId, participantId] remembered for reconnect
  directs,        \* client -> contributions with a pending direct sendSegment
  flushes,        \* client -> running syncOfflineQueue loops [items, idx]
  c2s,            \* client -> events emitted and not yet handled by the server
  s2c,            \* client -> events sent to it that its handlers have not run on
  ndrops,         \* transport drops so far
  calls,          \* call of addSegment -> its arguments and the state of its promise
  appended,       \* contributions the server appended to a log
  errSeen,        \* contributions for which an error event reached the client
  storage,        \* localStorage item 'ghost-story-offline-queue'
  rm,             \* client -> its ReconnectionManager and the timers it armed
  invoked,        \* timers whose reconnect callback was invoked
  status,         \* client -> connectionStatus
  connecting      \* client -> io() / socket.connect() is under way

serverVars == <<sessions, sessionTimers, nextSession, nextSegId, now, rooms,
                sockData, online, inbox, aiTasks, aiCalls, inviteTokens, nextToken, gen, nreq>>

managerVars == <<rm, invoked, status, connecting>>

clientVars == <<connected, queue, clientNow, context, directs, flushes, c2s, s2c,
                ndrops, calls, appended, errSeen, storage, rm, invoked, status,
                connecting>>

\* ------------------------------------------------------------ validation
\* Content is a sequence of tokens: a word, a blank " ", or a markup tag.
IsBlank(tok) == tok = " "
IsTag(tok) == tok \in {"<b>", "</b>"}
PROFANITY_LIST == {"damn", "crap"}
MAX_SEGMENT_LENGTH == 500
MIN_SEGMENT_LENGTH == 1
TokLen(tok) == IF tok = "LONG" THEN MAX_SEGMENT_LENGTH + 1
               ELSE IF tok = "<b>" THEN 3 ELSE IF tok = "</b>" THEN 4
               ELSE IF tok \in PROFANITY_LIST THEN 4 ELSE 1

RECURSIVE trim(_)
trim(s) ==
  IF s = <<>> THEN s
  ELSE IF IsBlank(Head(s)) THEN trim(Tail(s))
  ELSE IF IsBlank(s[Len(s)]) THEN trim(SubSeq(s, 1, Len(s) - 1))
  ELSE s

RECURSIVE CharLen(_)
CharLen(s) == IF s = <<>> THEN 0 ELSE TokLen(Head(s)) + CharLen(Tail(s))

hasContent(content) == CharLen(trim(content)) > 0

sanitizeInput(input) == trim(SelectSeq(input, LAMBDA tok : ~IsTag(tok)))

isValidLength(content) ==
  LET length == CharLen(trim(content))
  IN length >= MIN_SEGMENT_LENGTH /\ length <= MAX_SEGMENT_LENGTH

containsProfanity_Never(content) == FALSE

containsProfanity(content) == \E i \in 1..Len(content) : content[i] \in PROFANITY_LIST

validateSegment(content) ==
  IF ~hasContent(content) THEN [valid |-> FALSE, sanitized |-> <<>>]
  ELSE LET sanitized == sanitizeInput(content) IN
    IF ~isValidLength(sanitized) THEN [valid |-> FALSE, sanitized |-> <<>>]
    ELSE IF containsProfanity(sanitized) THEN [valid |-> FALSE, sanitized |-> <<>>]
    ELSE [valid |-> TRUE, sanitized |-> sanitized]

\* ---------------------------------------------------------- StoryManager
Segment(id, content, contributorId, contributorType, timestamp, cid) ==
  [id |-> id, content |-> content, contributorId |-> contributorId,
   contributorType |-> contributorType, timestamp |-> timestamp, cid |-> cid]

RECURSIVE InsertSorted_TiesFirst(_, _)
\* an unstable sort: the new element lands before the elements of equal timestamp
InsertSorted_TiesFirst(s, e) ==
  IF s = <<>> THEN <<e>>
  ELSE IF s[Len(s)].timestamp < e.timestamp THEN Append(s, e)
  ELSE Append(InsertSorted_TiesFirst(SubSeq(s, 1, Len(s) - 1), e), s[Len(s)])

RECURSIVE InsertSorted(_, _)
\* where Array.prototype.sort (stable) leaves an element pushed at the end of
\* a list: behind every element whose timestamp is not greater
InsertSorted(s, e) ==
  IF s = <<>> THEN <<e>>
  ELSE IF s[Len(s)].timestamp <= e.timestamp THEN Append(s, e)
  ELSE Append(InsertSorted(SubSeq(s, 1, Len(s) - 1), e), s[Len(s)])

\* the push without the sort
SortByTimestamp_NoSort(s) == s

RECURSIVE SortByTimestamp(_)
\* segments.sort((a, b) => a.timestamp - b.timestamp), a stable sort
SortByTimestamp(s) ==
  IF s = <<>> THEN <<>>
  ELSE InsertSorted(SortByTimestamp(SubSeq(s, 1, Len(s) - 1)), s[Len(s)])

getSession(sessionId) ==
  IF sessionId \in DOMAIN sessions THEN sessions[sessionId] ELSE NoSession

HasSession(sessionId) == sessionId \in DOMAIN sessions

getSegments(sessionId) == getSession(sessionId).segments

createSession_Replace(reg, id, title) ==
  [s \in {id} |-> [id |-> id, title |-> title, participants |-> <<>>, segments |-> <<>>]]

\* the registry after createSession: a fresh id, no participants, no segments
createSession(reg, id, title) ==
  [s \in DOMAIN reg \cup {id} |->
     IF s = id
     THEN [id |-> id, title |-> title, participants |-> <<>>, segments |-> <<>>]
     ELSE reg[s]]

addParticipant_Always(reg, sessionId, participant) ==
  IF sessionId \notin DOMAIN reg THEN reg
  ELSE [reg EXCEPT ![sessionId].participants = Append(@, participant)]

\* the registry after addParticipant: de-duplicated by name
addParticipant(reg, sessionId, participant) ==
  IF sessionId \notin DOMAIN reg THEN reg
  ELSE IF \E i \in 1..Len(reg[sessionId].participants) :
            reg[sessionId].participants[i].name = participant.name
       THEN reg
       ELSE [reg EXCEPT ![sessionId].participants = Append(@, participant)]

\* the new segment replaces the list instead of joining it
addSegment_Replace(reg, sessionId, segment) ==
  IF sessionId \notin DOMAIN reg THEN reg
  ELSE [reg EXCEPT ![sessionId].segments = <<segment>>]

\* the registry after addSegment: push, then sort by timestamp
addSegment(reg, sessionId, segment) ==
  IF sessionId \notin DOMAIN reg THEN reg
  ELSE [reg EXCEPT ![sessionId].segments = SortByTimestamp(Append(@, segment))]

\* participants.find(p => p.id === contributorId): its name, or "" when absent
ContributorName(participants, contributorId) ==
  LET found == SelectSeq(participants, LAMBDA p : p.id = contributorId)
  IN IF found = <<>> THEN "" ELSE found[1].name

exportAsText_Reversed(session) ==
  [title |-> session.title,
   participants |-> [i \in 1..Len(session.participants) |-> session.participants[i].name],
   body |-> [i \in 1..Len(session.segments) |->
      LET segment == session.segments[Len(session.segments) + 1 - i]
      IN [name |-> ToString(segment.contributorId),
          content |-> segment.content, class |-> ""]]]

\* exportAsText: one entry per segment, "[name] content"
exportAsText(session) ==
  [title |-> session.title,
   participants |-> [i \in 1..Len(session.participants) |-> session.participants[i].name],
   body |-> [i \in 1..Len(session.segments) |->
      LET segment == session.segments[i]
          name == ContributorName(session.participants, segment.contributorId)
      IN [name |-> IF name # "" THEN name ELSE ToString(segment.contributorId),
          content |-> segment.content, class |-> ""]]]

\* exportAsHtml: one div per segment with class ai-segment or user-segment
exportAsHtml(session) ==
  [title |-> session.title,
   participants |-> [i \in 1..Len(session.participants) |-> session.participants[i].name],
   body |-> [i \in 1..Len(session.segments) |->
      LET segment == session.segments[i]
          name == ContributorName(session.participants, segment.contributorId)
      IN [name |-> IF name # "" THEN name
                   ELSE IF segment.contributorType = "ai" THEN "AI Co-Author"
                   ELSE ToString(segment.contributorId),
          content |-> segment.content,
          class |-> IF segment.contributorType = "ai" THEN "ai-segment"
                    ELSE "user-segment"]]]

\* exportSession on a live session (it throws 'Session not found' otherwise)
exportSession(reg, sessionId, format) ==
  IF format = "text" THEN exportAsText(reg[sessionId]) ELSE exportAsHtml(reg[sessionId])

\* refreshSessionTimeout: called by addParticipant and addSegment on a live id
refreshSessionTimeout(timers, reg, sessionId) ==
  IF sessionId \in DOMAIN reg THEN timers \cup {sessionId} ELSE timers

\* the timeout callback: sessions.delete, sessionTimers.delete
ExpireSession(sessionId) ==
  /\ sessionId \in sessionTimers
  /\ sessions' = [s \in DOMAIN sessions \ {sessionId} |-> sessions[s]]
  /\ sessionTimers' = sessionTimers \ {sessionId}
  /\ UNCHANGED <<nextSession, nextSegId, now, rooms, sockData, online, inbox,
                 aiTasks, aiCalls, inviteTokens, nextToken, gen>>

\* -------------------------------------------------------------- gateway
Ev(type, sid, segs, parts, code, cid) ==
  [type |-> type, sid |-> sid, segs |-> segs, parts |-> parts, code |-> code,
   cid |-> cid, content |-> <<>>]

ErrorEv(code, cid) == Ev("error", 0, <<>>, <<>>, code, cid)

\* a delta: only the latest segment
SessionEv_Delta(type, session) ==
  Ev(type, session.id,
     IF session.segments = <<>> THEN <<>>
     ELSE <<session.segments[Len(session.segments)]>>,
     session.participants, "", 0)

\* the payload of session:created / session:updated: the session object itself,
\* with its whole segment list
SessionEv(type, session) ==
  Ev(type, session.id, session.segments, session.participants, "", 0)

EmitTo_Everyone(box, c, ev) == [d \in Conns |-> Append(box[d], ev)]

\* socket.emit(ev): to the one connection
EmitTo(box, c, ev) == [box EXCEPT ![c] = Append(@, ev)]

\* the room broadcast is dropped
EmitRoom_Nobody(box, member, room, ev) == box

\* io.to(room).emit(ev): to every connection joined to the room
EmitRoom(box, member, room, ev) ==
  [c \in Conns |-> IF room \in member[c] THEN Append(box[c], ev) ELSE box[c]]

EmitRoomExcept_Sender(box, member, room, sender, ev) ==
  [c \in Conns |-> IF room \in member[c] THEN Append(box[c], ev) ELSE box[c]]

\* socket.to(room).emit(ev): to the room except the sender
EmitRoomExcept(box, member, room, sender, ev) ==
  [c \in Conns |-> IF room \in member[c] /\ c # sender
                   THEN Append(box[c], ev) ELSE box[c]]

\* new Date(): the wall clock has advanced or not since the last reading
ClockReadings == {t \in {now, now + 1} : t <= MaxClock}

\* io.on('connection')
ServerConnect(c) ==
  /\ ~online[c]
  /\ online' = [online EXCEPT ![c] = TRUE]
  /\ UNCHANGED <<sessions, sessionTimers, nextSession, nextSegId, now, rooms,
                 sockData, inbox, aiTasks, aiCalls, inviteTokens, nextToken, gen>>

\* the transport closes: the server destroys the socket, which leaves its rooms
ServerDisconnect(c) ==
  /\ online[c]
  /\ online' = [online EXCEPT ![c] = FALSE]
  /\ rooms' = [rooms EXCEPT ![c] = {}]
  /\ sockData' = [sockData EXCEPT ![c] = [sessionId |-> 0, participantId |-> 0]]
  /\ UNCHANGED <<sessions, sessionTimers, nextSession, nextSegId, now, inbox,
                 aiTasks, aiCalls, inviteTokens, nextToken, gen>>

\* userName || 'Anonymous'
NameOrAnonymous(userName) == IF userName = "" THEN "Anonymous" ELSE userName

\* socket.on('session:create'), while fewer than limit sessions were created
OnSessionCreateUpTo(c, title, userName, limit) ==
  /\ online[c] /\ nreq < MaxRequests /\ nextSession < limit
  /\ LET id == nextSession + 1
         participant == [id |-> c, name |-> NameOrAnonymous(userName)]
         reg == addParticipant(createSession(sessions, id, title), id, participant)
     IN /\ sessions' = reg
        /\ sessionTimers' = refreshSessionTimeout(sessionTimers, reg, id)
        /\ nextSession' = id
        /\ rooms' = [rooms EXCEPT ![c] = @ \cup {id}]
        /\ sockData' = [sockData EXCEPT ![c] = [sessionId |-> id, participantId |-> c]]
        /\ inbox' = EmitTo(inbox, c,
             SessionEv("session:created", reg[id]))
  /\ nreq' = nreq + 1
  /\ UNCHANGED <<nextSegId, now, online, aiTasks, aiCalls, inviteTokens, nextToken, gen>>

\* socket.on('session:create')
OnSessionCreate(c, title, userName) ==
  OnSessionCreateUpTo(c, title, userName, MaxSessions)

\* socket.on('session:join')
OnSessionJoin(c, sessionId, userName) ==
  /\ online[c] /\ nreq < MaxRequests
  /\ nreq' = nreq + 1
  /\ IF ~HasSession(sessionId)
     THEN /\ inbox' = EmitTo(inbox, c, ErrorEv("SESSION_NOT_FOUND", 0))
          /\ UNCHANGED <<sessions, sessionTimers, rooms, sockData>>
     ELSE LET participant == [id |-> c, name |-> NameOrAnonymous(userName)]
              reg == addParticipant(sessions, sessionId, participant)
              member == [rooms EXCEPT ![c] = @ \cup {sessionId}]
          IN /\ sessions' = reg
             /\ sessionTimers' = refreshSessionTimeout(sessionTimers, reg, sessionId)
             /\ rooms' = member
             /\ sockData' = [sockData EXCEPT
                  ![c] = [sessionId |-> sessionId, participantId |-> c]]
             /\ inbox' = EmitRoomExcept(
                  EmitTo(inbox, c, SessionEv("session:updated", reg[sessionId])),
                  member, sessionId, c,
                  Ev("participant:joined", sessionId, <<>>, <<participant>>, "", 0))
  /\ UNCHANGED <<nextSession, nextSegId, now, online, aiTasks, aiCalls, inviteTokens, nextToken, gen>>

\* socket.on('session:reconnect')
OnSessionReconnect(c, sessionId, participantId) ==
  /\ online[c] /\ nreq < MaxRequests
  /\ nreq' = nreq + 1
  /\ IF ~HasSession(sessionId)
     THEN /\ inbox' = EmitTo(inbox, c, ErrorEv("SESSION_NOT_FOUND", 0))
          /\ UNCHANGED <<rooms, sockData>>
     ELSE /\ rooms' = [rooms EXCEPT ![c] = @ \cup {sessionId}]
          /\ sockData' = [sockData EXCEPT
               ![c] = [sessionId |-> sessionId, participantId |-> participantId]]
          /\ inbox' = EmitTo(
               EmitTo(inbox, c, SessionEv("session:updated", sessions[sessionId])),
               c, Ev("session:reconnected", sessionId, <<>>, <<>>, "", 0))
  /\ UNCHANGED <<sessions, sessionTimers, nextSession, nextSegId, now, online,
                 aiTasks, aiCalls, inviteTokens, nextToken, gen>>

SegmentAddEmits_SenderOnly(box, member, c, sessionId, segment) ==
  EmitTo(
    EmitTo(box, c, Ev("segment:added", sessionId, <<segment>>, <<>>, "", segment.cid)),
    c, Ev("segment:acknowledged", sessionId, <<segment>>, <<>>, "", segment.cid))

\* what the handler of segment:add emits for an appended segment: io.to(room),
\* then socket.emit to the sender, then the acknowledgment
SegmentAddEmits(box, member, c, sessionId, segment) ==
  EmitTo(
    EmitTo(
      EmitRoom(box, member, sessionId,
               Ev("segment:added", sessionId, <<segment>>, <<>>, "", segment.cid)),
      c, Ev("segment:added", sessionId, <<segment>>, <<>>, "", segment.cid)),
    c, Ev("segment:acknowledged", sessionId, <<segment>>, <<>>, "", segment.cid))

UserSegments_All(segs) == segs

UserSegments(segs) == SelectSeq(segs, LAMBDA s : s.contributorType = "user")

\* the handler of segment:add up to the call of generateHorrorElement, on a
\* server that has issued fewer than limit segment ids
HandleSegmentAdd(c, sessionId, content, cid, limit) ==
  /\ LET validationResult == validateSegment(content) IN
     IF ~validationResult.valid
     THEN /\ inbox' = EmitTo(inbox, c, ErrorEv("CONTENT_VALIDATION_ERROR", cid))
          /\ UNCHANGED <<sessions, sessionTimers, nextSegId, now, aiTasks, aiCalls>>
     ELSE IF ~HasSession(sessionId)
     THEN /\ inbox' = EmitTo(inbox, c, ErrorEv("SESSION_NOT_FOUND", cid))
          /\ UNCHANGED <<sessions, sessionTimers, nextSegId, now, aiTasks, aiCalls>>
     ELSE /\ nextSegId < limit
          /\ \E t \in ClockReadings :
               LET segment == Segment(nextSegId + 1, validationResult.sanitized,
                                IF sockData[c].participantId # 0
                                THEN sockData[c].participantId ELSE c,
                                "user", t, cid)
                   reg == addSegment(sessions, sessionId, segment)
                   userSegments == UserSegments(reg[sessionId].segments)
                   trigger == Len(userSegments) > 0 /\ Len(userSegments) % 3 = 0
               IN /\ now' = t
                  /\ nextSegId' = nextSegId + 1
                  /\ sessions' = reg
                  /\ sessionTimers' = refreshSessionTimeout(sessionTimers, reg, sessionId)
                  /\ inbox' = SegmentAddEmits(inbox, rooms, c, sessionId, segment)
                  /\ aiTasks' = IF trigger THEN [aiTasks EXCEPT ![sessionId] = @ + 1]
                                ELSE aiTasks
                  /\ aiCalls' = IF trigger THEN [aiCalls EXCEPT ![sessionId] = @ + 1]
                                ELSE aiCalls
  /\ UNCHANGED <<nextSession, rooms, sockData, online, inviteTokens, nextToken, gen>>

\* socket.on('segment:add') up to the await of the AI call
OnSegmentAdd(c, sessionId, content, cid) ==
  /\ online[c] /\ nreq < MaxRequests
  /\ nreq' = nreq + 1
  /\ HandleSegmentAdd(c, sessionId, content, cid, MaxSegments)


GenerationSettles_Rollback(sessionId, ok, limit) ==
  /\ aiTasks[sessionId] > 0
  /\ aiTasks' = [aiTasks EXCEPT ![sessionId] = @ - 1]
  /\ ~ok /\ HasSession(sessionId) /\ sessions[sessionId].segments # <<>>
  /\ sessions' = [sessions EXCEPT ![sessionId].segments = SubSeq(@, 1, Len(@) - 1)]
  /\ inbox' = EmitRoom(inbox, rooms, sessionId, ErrorEv("AI_GENERATION_ERROR", 0))
  /\ UNCHANGED <<sessionTimers, nextSegId, now>>
  /\ UNCHANGED <<nextSession, rooms, sockData, online, nreq, aiCalls, inviteTokens, nextToken, gen>>

\* the rest of the handler of segment:add once generateHorrorElement settles
GenerationSettles(sessionId, ok, limit) ==
  /\ aiTasks[sessionId] > 0
  /\ aiTasks' = [aiTasks EXCEPT ![sessionId] = @ - 1]
  /\ IF ok
     THEN /\ nextSegId < limit
          /\ \E t \in ClockReadings :
               LET aiSegment == Segment(nextSegId + 1, <<"AI">>, AI_COAUTHOR, "ai", t, 0)
                   reg == addSegment(sessions, sessionId, aiSegment)
               IN /\ now' = t
                  /\ nextSegId' = nextSegId + 1
                  /\ sessions' = reg
                  /\ sessionTimers' = refreshSessionTimeout(sessionTimers, reg, sessionId)
                  /\ inbox' = EmitRoom(inbox, rooms, sessionId,
                       Ev("segment:added", sessionId, <<aiSegment>>, <<>>, "", 0))
     ELSE /\ inbox' = EmitRoom(inbox, rooms, sessionId,
                        ErrorEv("AI_GENERATION_ERROR", 0))
          /\ UNCHANGED <<sessions, sessionTimers, nextSegId, now>>
  /\ UNCHANGED <<nextSession, rooms, sockData, online, nreq, aiCalls, inviteTokens, nextToken, gen>>

AIGenerated(sessionId, ok) == GenerationSettles(sessionId, ok, MaxSegments)

\* socket.on('session:export')
OnSessionExport(c, sessionId, format) ==
  /\ online[c] /\ nreq < MaxRequests
  /\ nreq' = nreq + 1
  /\ IF ~HasSession(sessionId)
     THEN inbox' = EmitTo(inbox, c, ErrorEv("SESSION_NOT_FOUND", 0))
     ELSE inbox' = EmitTo(inbox, c,
            [Ev("session:exported", sessionId, <<>>, <<>>, format, 0)
               EXCEPT !.content = exportSession(sessions, sessionId, format)])
  /\ UNCHANGED <<sessions, sessionTimers, nextSession, nextSegId, now, rooms,
                 sockData, online, aiTasks, aiCalls, inviteTokens, nextToken, gen>>

\* ------------------------------------------------------------ invite links
\* randomBytes(32).toString('hex'): a token that was never produced before
\* `${baseUrl}/join/${token}`
InviteLink(token) == <<"http://localhost:5173", "join", token>>

\* the Map after generateInviteLink stored the token
generateInviteLink(tokens, token, sessionId) ==
  [t \in DOMAIN tokens \cup {token} |-> IF t = token THEN sessionId ELSE tokens[t]]

\* the last part of the link's path
extractTokenFromLink(inviteLink) == inviteLink[Len(inviteLink)]

validateInviteToken_Any(tokens, token) ==
  IF DOMAIN tokens = {} THEN 0 ELSE tokens[CHOOSE t \in DOMAIN tokens : TRUE]

\* inviteTokens.get(token) || null, null and the empty id being 0
validateInviteToken(tokens, token) ==
  IF token \in DOMAIN tokens /\ tokens[token] # 0 THEN tokens[token] ELSE 0

\* inviteTokens.delete(token)
revokeInviteToken(tokens, token) == [t \in DOMAIN tokens \ {token} |-> tokens[t]]

\* socket.on('invite:generate')
OnInviteGenerate(c, sessionId) ==
  /\ online[c] /\ nreq < MaxRequests
  /\ nreq' = nreq + 1
  /\ IF ~HasSession(sessionId)
     THEN /\ inbox' = EmitTo(inbox, c, ErrorEv("SESSION_NOT_FOUND", 0))
          /\ UNCHANGED <<inviteTokens, nextToken>>
     ELSE /\ nextToken < MaxTokens
          /\ nextToken' = nextToken + 1
          /\ inviteTokens' = generateInviteLink(inviteTokens, nextToken + 1, sessionId)
          /\ inbox' = EmitTo(inbox, c,
               [Ev("invite:generated", sessionId, <<>>, <<>>, "", 0)
                  EXCEPT !.content = InviteLink(nextToken + 1)])
  /\ UNCHANGED <<sessions, sessionTimers, nextSession, nextSegId, now, rooms,
                 sockData, online, aiTasks, aiCalls, gen>>

\* socket.on('invite:validate')
OnInviteValidate(c, token) ==
  /\ online[c] /\ nreq < MaxRequests
  /\ nreq' = nreq + 1
  /\ LET sessionId == validateInviteToken(inviteTokens, token) IN
     IF sessionId = 0
     THEN inbox' = EmitTo(inbox, c, ErrorEv("INVALID_INVITE_TOKEN", 0))
     ELSE IF ~HasSession(sessionId)
     THEN inbox' = EmitTo(inbox, c, ErrorEv("SESSION_NOT_FOUND", 0))
     ELSE inbox' = EmitTo(inbox, c, Ev("invite:validated", sessionId, <<>>, <<>>, "", 0))
  /\ UNCHANGED <<sessions, sessionTimers, nextSession, nextSegId, now, rooms,
                 sockData, online, aiTasks, aiCalls, inviteTokens, nextToken, gen>>

vars == <<sessions, sessionTimers, nextSession, nextSegId, now, rooms, sockData,
          online, inbox, aiTasks, aiCalls, inviteTokens, nextToken, gen, nreq, ret, connected, queue, clientNow, context,
          directs, flushes, c2s, s2c, ndrops, calls, appended, errSeen, storage, rm,
          invoked, status, connecting>>

\* ---------------------------------------------------------- OfflineQueue
maxRetries == 3

SameEntry(item, sessionId, timestamp) ==
  item.sessionId = sessionId /\ item.timestamp = timestamp

enqueue_Front(q, sessionId, content, timestamp, cid) ==
  <<[sessionId |-> sessionId, content |-> content, timestamp |-> timestamp,
     retryCount |-> 0, cid |-> cid, seen |-> 0]>> \o q

\* enqueue: push {sessionId, content, timestamp: new Date(), retryCount: 0};
\* cid names the addSegment call the entry comes from and seen counts the
\* incrementRetry calls made for the entry (neither is a field of the program)
enqueue(q, sessionId, content, timestamp, cid) ==
  Append(q, [sessionId |-> sessionId, content |-> content, timestamp |-> timestamp,
             retryCount |-> 0, cid |-> cid, seen |-> 0])

\* dequeue: filter out every item matching both sessionId and timestamp
dequeue(q, sessionId, timestamp) ==
  SelectSeq(q, LAMBDA item : ~SameEntry(item, sessionId, timestamp))

\* the index queue.find returns, 0 when nothing matches
FindEntry(q, sessionId, timestamp) ==
  IF \E i \in 1..Len(q) : SameEntry(q[i], sessionId, timestamp)
  THEN CHOOSE i \in 1..Len(q) :
         /\ SameEntry(q[i], sessionId, timestamp)
         /\ \A j \in 1..(i - 1) : ~SameEntry(q[j], sessionId, timestamp)
  ELSE 0

\* incrementRetry: [queue, result] after the call
incrementRetry(q, sessionId, timestamp) ==
  LET i == FindEntry(q, sessionId, timestamp) IN
  IF i = 0 THEN [queue |-> q, result |-> FALSE]
  ELSE LET bumped == [q EXCEPT ![i].retryCount = @ + 1] IN
       IF bumped[i].retryCount >= maxRetries
       THEN [queue |-> dequeue(bumped, sessionId, timestamp), result |-> FALSE]
       ELSE [queue |-> bumped, result |-> TRUE]

\* clearSession: filter out every item of the session
clearSession(q, sessionId) == SelectSeq(q, LAMBDA item : item.sessionId # sessionId)

\* clearAll
clearAll(q) == <<>>

\* localStorage.getItem returning null
NoItem == [present |-> FALSE, text |-> <<>>]

\* Date.prototype.toJSON: the ISO string of the instant, to the millisecond
toISOString(t) == <<"iso", t>>

parseDate_Epoch(str) == 0

\* new Date(isoString)
parseDate(str) == str[2]

\* saveToStorage: JSON.stringify(queue) under the storage key
saveToStorage(q) ==
  [present |-> TRUE,
   text |-> [i \in 1..Len(q) |-> [q[i] EXCEPT !.timestamp = toISOString(@)]]]

\* loadFromStorage: JSON.parse, timestamps converted back to Date objects
loadFromStorage(item) ==
  IF item.present
  THEN [i \in 1..Len(item.text) |-> [item.text[i] EXCEPT !.timestamp = parseDate(@)]]
  ELSE <<>>

\* ---------------------------------------------------- ReconnectionManager
maxAttempts == 10
baseDelay == 1000
maxDelay == 30000

Min(a, b) == IF a < b THEN a ELSE b
Max(a, b) == IF a > b THEN a ELSE b

RECURSIVE Pow2(_)
Pow2(n) == IF n = 0 THEN 1 ELSE 2 * Pow2(n - 1)

\* values of Math.random(), in hundredths
JitterDraws == {0, 50, 75}

\* a manager after construction; timers is the set of armed, unfired timers
\* and nextTimer the number of timers setTimeout has handed out
NewManager == [attempt |-> 0, reconnectTimer |-> 0, timers |-> {}, nextTimer |-> 0]

cappedDelay_Linear(attempt) == Min(baseDelay * (attempt + 1), maxDelay)

\* min(baseDelay * 2^attempt, maxDelay)
cappedDelay(attempt) == Min(baseDelay * Pow2(attempt), maxDelay)

\* getNextDelay with Math.random() = r / 100: [rm, capped, delay]
getNextDelay(m, r) ==
  LET capped == cappedDelay(m.attempt)
      jitter == (capped * 25 * (2 * r - 100)) \div 10000
  IN [rm |-> [m EXCEPT !.attempt = @ + 1],
      capped |-> capped,
      delay |-> Max(0, capped + jitter)]

clearTimer_Keep(m) == m

\* clearTimer
clearTimer(m) ==
  IF m.reconnectTimer # 0
  THEN [m EXCEPT !.timers = @ \ {m.reconnectTimer}, !.reconnectTimer = 0]
  ELSE m

\* reset
reset(m) == clearTimer([m EXCEPT !.attempt = 0])

isMaxAttemptsReached_Late(m) == m.attempt > maxAttempts

isMaxAttemptsReached(m) == m.attempt >= maxAttempts

scheduleReconnect_KeepTimer(m, r) ==
  IF isMaxAttemptsReached(m) THEN m
  ELSE [getNextDelay(m, r).rm EXCEPT !.nextTimer = m.nextTimer + 1,
                                     !.reconnectTimer = m.nextTimer + 1,
                                     !.timers = @ \cup {m.nextTimer + 1}]

\* scheduleReconnect(callback): the timer handed out stands for the callback
scheduleReconnect(m, r) ==
  LET cleared == clearTimer(m) IN
  IF isMaxAttemptsReached(cleared) THEN cleared
  ELSE [getNextDelay(cleared, r).rm EXCEPT !.nextTimer = m.nextTimer + 1,
                                           !.reconnectTimer = m.nextTimer + 1,
                                           !.timers = @ \cup {m.nextTimer + 1}]

attemptReconnection_NoSchedule(m, st, r) ==
  IF isMaxAttemptsReached(m) THEN [rm |-> m, status |-> st]
  ELSE [rm |-> m, status |-> "reconnecting"]

\* attemptReconnection: [rm, status]
attemptReconnection(m, st, r) ==
  IF isMaxAttemptsReached(m) THEN [rm |-> m, status |-> st]
  ELSE [rm |-> scheduleReconnect(m, r), status |-> "reconnecting"]

\* ------------------------------------------------------- WebSocketClient
\* a call of addSegment: its promise is "pending", resolved at once after the
\* entry was "queued", resolved by the timer once "sent", or "rejected"
Call(sessionId, content, st) ==
  [sessionId |-> sessionId, content |-> content, status |-> st]

Msg(type, sessionId, content, cid) ==
  [type |-> type, sessionId |-> sessionId, content |-> content, cid |-> cid]

RECURSIVE FailRest(_, _, _)
\* syncOfflineQueue from item idx on while the socket is not connected: every
\* sendSegment rejects 'Not connected' and the catch block calls incrementRetry
FailRest(q, items, idx) ==
  IF idx > Len(items) THEN q
  ELSE FailRest(incrementRetry(q, items[idx].sessionId, items[idx].timestamp).queue,
                items, idx + 1)

\* syncOfflineQueue resumed at item idx: [queue, running, emits]. Connected, it
\* emits the item and awaits its sendSegment; otherwise it runs to its end.
ResumeFlush(q, items, idx, isConnected) ==
  IF idx > Len(items) THEN [queue |-> q, running |-> FALSE, emits |-> <<>>]
  ELSE IF isConnected
  THEN [queue |-> q, running |-> TRUE,
        emits |-> <<Msg("segment:add", items[idx].sessionId, items[idx].content,
                        items[idx].cid)>>]
  ELSE [queue |-> FailRest(q, items, idx), running |-> FALSE, emits |-> <<>>]

\* the events of the step that a handler of the client acts on: error events
\* (sendSegment's errorHandler, the alert of the hook) and session:created
\* (the hook calls setSessionContext)
Handled(e) ==
  \/ e.type = "session:created"
  \/ e.type = "error" /\ e.code # "AI_GENERATION_ERROR"

Arrivals(c) ==
  SelectSeq(SubSeq(inbox'[c], Len(inbox[c]) + 1, Len(inbox'[c])), Handled)

\* contributions the step acknowledged to their sender (socket.emit of
\* segment:acknowledged follows storyManager.addSegment)
Acked ==
  UNION {{inbox'[c][i].cid : i \in {j \in (Len(inbox[c]) + 1)..Len(inbox'[c]) :
                                     inbox'[c][j].type = "segment:acknowledged"}} :
         c \in Conns}

AfterServerStep ==
  /\ s2c' = [c \in Clients |-> IF online'[c] THEN s2c[c] \o Arrivals(c) ELSE s2c[c]]
  /\ appended' = appended \cup Acked

\* socket.on('connect'): status, reconnectToSession, syncOfflineQueue
TransportUp(c) ==
  /\ ~connected[c] /\ connecting[c]
  /\ connected' = [connected EXCEPT ![c] = TRUE]
  /\ ServerConnect(c)
  /\ LET rejoin == IF context[c].sessionId # 0 /\ context[c].participantId # 0
                   THEN <<Msg("session:reconnect", context[c].sessionId,
                              context[c].participantId, 0)>>
                   ELSE <<>>
         sync == ResumeFlush(queue[c], queue[c], 1, TRUE)
     IN /\ c2s' = [c2s EXCEPT ![c] = @ \o rejoin \o sync.emits]
        /\ flushes' = [flushes EXCEPT ![c] =
              IF sync.running THEN Append(@, [items |-> queue[c], idx |-> 1]) ELSE @]
  /\ UNCHANGED <<nreq, ret, queue, clientNow, context, directs, s2c, ndrops, calls,
                 appended, errSeen>>
  /\ status' = [status EXCEPT ![c] = "connected"]
  /\ rm' = [rm EXCEPT ![c] = reset(@)]
  /\ connecting' = [connecting EXCEPT ![c] = FALSE]
  /\ UNCHANGED <<storage, invoked>>

\* the transport closes: socket.connected turns false, what was in flight in
\* either direction is lost, the server destroys its socket
TransportDrops(c, limit) ==
  /\ connected[c] /\ ndrops < limit
  /\ ndrops' = ndrops + 1
  /\ connected' = [connected EXCEPT ![c] = FALSE]
  /\ ServerDisconnect(c)
  /\ c2s' = [c2s EXCEPT ![c] = <<>>]
  /\ s2c' = [s2c EXCEPT ![c] = <<>>]
  /\ UNCHANGED <<nreq, ret, queue, clientNow, context, directs, flushes, calls,
                 appended, errSeen>>
  /\ \E r \in JitterDraws :
       LET next == attemptReconnection(rm[c], "disconnected", r)
       IN /\ rm' = [rm EXCEPT ![c] = next.rm]
          /\ status' = [status EXCEPT ![c] = next.status]
  /\ UNCHANGED <<storage, invoked, connecting>>

TransportDown(c) == TransportDrops(c, MaxDrops)

\* createSession(title, userName)
ClientCreateSession(c, title) ==
  /\ connected[c]
  /\ context[c].sessionId = 0
  /\ nreq + Len(c2s[c]) < MaxRequests
  /\ c2s' = [c2s EXCEPT ![c] = Append(@, Msg("session:create", 0, title, 0))]
  /\ UNCHANGED serverVars
  /\ UNCHANGED <<ret, connected, queue, clientNow, context, directs, flushes, s2c,
                 ndrops, calls, appended, errSeen>>
  /\ UNCHANGED storage /\ UNCHANGED managerVars

\* joinSession(sessionId, userName)
ClientJoinSession(c, sessionId) ==
  /\ connected[c]
  /\ context[c].sessionId = 0
  /\ nreq + Len(c2s[c]) < MaxRequests
  /\ context' = [context EXCEPT ![c].sessionId = sessionId]
  /\ c2s' = [c2s EXCEPT ![c] = Append(@, Msg("session:join", sessionId, <<>>, 0))]
  /\ UNCHANGED serverVars
  /\ UNCHANGED <<ret, connected, queue, clientNow, directs, flushes, s2c, ndrops,
                 calls, appended, errSeen>>
  /\ UNCHANGED storage /\ UNCHANGED managerVars

\* addSegment(sessionId, content): queue it when offline, else sendSegment
ClientAddSegment(c, sessionId, content) ==
  /\ sessionId = context[c].sessionId
  /\ \E cid \in 1..MaxCalls :
       /\ calls[cid].status = "none"
       /\ \A k \in 1..(cid - 1) : calls[k].status # "none"
       /\ IF ~connected[c]
          THEN /\ \E t \in {r \in {clientNow, clientNow + 1} : r <= MaxClientClock} :
                    /\ clientNow' = t
                    /\ queue' = [queue EXCEPT ![c] = enqueue(@, sessionId, content, t, cid)]
               /\ calls' = [calls EXCEPT ![cid] = Call(sessionId, content, "queued")]
               /\ UNCHANGED <<directs, c2s>>
          ELSE /\ c2s' = [c2s EXCEPT ![c] = Append(@, Msg("segment:add", sessionId, content, cid))]
               /\ directs' = [directs EXCEPT ![c] = @ \cup {cid}]
               /\ calls' = [calls EXCEPT ![cid] = Call(sessionId, content, "pending")]
               /\ UNCHANGED <<queue, clientNow>>
  /\ UNCHANGED serverVars
  /\ UNCHANGED <<ret, connected, context, flushes, s2c, ndrops, appended, errSeen>>
  /\ storage' = IF queue'[c] # queue[c] THEN saveToStorage(queue'[c]) ELSE storage
  /\ UNCHANGED managerVars

\* the 100 ms timer of a direct sendSegment fires: its promise resolves
DirectTimer(c, cid) ==
  /\ cid \in directs[c]
  /\ directs' = [directs EXCEPT ![c] = @ \ {cid}]
  /\ calls' = [calls EXCEPT ![cid].status = "sent"]
  /\ UNCHANGED serverVars
  /\ UNCHANGED <<ret, connected, queue, clientNow, context, flushes, c2s, s2c, ndrops,
                 appended, errSeen>>
  /\ UNCHANGED storage /\ UNCHANGED managerVars

\* the 100 ms timer of the sendSegment a flush awaits fires: the item is
\* dequeued as synced and the loop goes on with the next item
FlushTimer(c, f) ==
  /\ f \in 1..Len(flushes[c])
  /\ LET fl == flushes[c][f]
         item == fl.items[fl.idx]
         next == ResumeFlush(dequeue(queue[c], item.sessionId, item.timestamp),
                             fl.items, fl.idx + 1, connected[c])
     IN /\ queue' = [queue EXCEPT ![c] = next.queue]
        /\ c2s' = [c2s EXCEPT ![c] = @ \o next.emits]
        /\ flushes' = [flushes EXCEPT ![c] =
              IF next.running THEN [@ EXCEPT ![f].idx = fl.idx + 1]
              ELSE SubSeq(@, 1, f - 1) \o SubSeq(@, f + 1, Len(@))]
  /\ UNCHANGED serverVars
  /\ UNCHANGED <<ret, connected, clientNow, context, directs, s2c, ndrops, calls,
                 appended, errSeen>>
  /\ storage' = IF queue'[c] # queue[c] THEN saveToStorage(queue'[c]) ELSE storage
  /\ UNCHANGED managerVars

RECURSIVE RejectFlushes(_, _, _, _)
\* every awaited sendSegment rejects, in the order the handlers were
\* registered: [queue, flushes, emits] once each loop has gone on
RejectFlushes(q, fls, f, isConnected) ==
  IF f > Len(fls) THEN [queue |-> q, flushes |-> <<>>, emits |-> <<>>]
  ELSE LET fl == fls[f]
           item == fl.items[fl.idx]
           next == ResumeFlush(
                     incrementRetry(q, item.sessionId, item.timestamp).queue,
                     fl.items, fl.idx + 1, isConnected)
           rest == RejectFlushes(next.queue, fls, f + 1, isConnected)
       IN [queue |-> rest.queue,
           flushes |-> (IF next.running THEN <<[fl EXCEPT !.idx = fl.idx + 1]>>
                        ELSE <<>>) \o rest.flushes,
           emits |-> next.emits \o rest.emits]

\* an event reaches the client and its handlers run
Deliver(c) ==
  /\ s2c[c] # <<>>
  /\ s2c' = [s2c EXCEPT ![c] = Tail(@)]
  /\ LET e == Head(s2c[c]) IN
     IF e.type = "session:created"
     THEN /\ context' = [context EXCEPT ![c] =
               [sessionId |-> e.sid, participantId |-> e.parts[Len(e.parts)].id]]
          /\ UNCHANGED <<queue, directs, flushes, c2s, calls, errSeen>>
     ELSE /\ errSeen' = errSeen \cup ({e.cid} \ {0})
          /\ IF e.code \in {"SEGMENT_ADD_ERROR", "CONTENT_VALIDATION_ERROR"}
             THEN LET rej == RejectFlushes(queue[c], flushes[c], 1, connected[c])
                  IN /\ calls' = [k \in 1..MaxCalls |->
                            IF k \in directs[c] THEN [calls[k] EXCEPT !.status = "rejected"]
                            ELSE calls[k]]
                     /\ directs' = [directs EXCEPT ![c] = {}]
                     /\ queue' = [queue EXCEPT ![c] = rej.queue]
                     /\ flushes' = [flushes EXCEPT ![c] = rej.flushes]
                     /\ c2s' = [c2s EXCEPT ![c] = @ \o rej.emits]
             ELSE UNCHANGED <<queue, directs, flushes, c2s, calls>>
          /\ UNCHANGED context
  /\ UNCHANGED serverVars
  /\ UNCHANGED <<ret, connected, clientNow, ndrops, appended>>
  /\ storage' = IF queue'[c] # queue[c] THEN saveToStorage(queue'[c]) ELSE storage
  /\ UNCHANGED managerVars

\* the server takes the next event of a client's connection off the wire
ServerRecv(c) ==
  /\ c2s[c] # <<>>
  /\ c2s' = [c2s EXCEPT ![c] = Tail(@)]
  /\ LET m == Head(c2s[c]) IN
       \/ m.type = "session:create" /\ OnSessionCreate(c, m.content, UserName(c))
       \/ m.type = "session:join" /\ OnSessionJoin(c, m.sessionId, UserName(c))
       \/ m.type = "session:reconnect" /\ OnSessionReconnect(c, m.sessionId, m.content)
       \/ m.type = "segment:add" /\ OnSegmentAdd(c, m.sessionId, m.content, m.cid)
  /\ AfterServerStep
  /\ UNCHANGED <<ret, connected, queue, clientNow, context, directs, flushes, ndrops,
                 calls, errSeen>>
  /\ UNCHANGED storage /\ UNCHANGED managerVars

\* a raw peer connection: connects, creates or joins a session
PeerStep(p) ==
  /\ \/ ServerConnect(p) /\ UNCHANGED nreq
     \/ \E sessionId \in SessionIds : OnSessionJoin(p, sessionId, UserName(p))
  /\ AfterServerStep
  /\ UNCHANGED <<ret, connected, queue, clientNow, context, directs, flushes, c2s,
                 ndrops, calls, errSeen>>
  /\ UNCHANGED storage /\ UNCHANGED managerVars

\* another participant's connection creates a session
PeerCreate(p) ==
  /\ \E title \in Titles : OnSessionCreate(p, title, UserName(p))
  /\ AfterServerStep
  /\ UNCHANGED <<ret, connected, queue, clientNow, context, directs, flushes, c2s,
                 ndrops, calls, errSeen>>
  /\ UNCHANGED storage /\ UNCHANGED managerVars

\* a pending AI call settles
AISettles(sessionId, ok) ==
  /\ AIGenerated(sessionId, ok)
  /\ AfterServerStep
  /\ UNCHANGED <<ret, connected, queue, clientNow, context, directs, flushes, c2s,
                 ndrops, calls, errSeen>>
  /\ UNCHANGED storage /\ UNCHANGED managerVars

\* the inactivity timeout of a session fires
SessionExpires(sessionId) ==
  /\ ExpireSession(sessionId)
  /\ UNCHANGED <<nreq, ret>>
  /\ UNCHANGED clientVars

\* a reconnect timer fires: its callback calls socket.connect()
ReconnectTimerFires(c) ==
  /\ \E id \in rm[c].timers :
       /\ rm' = [rm EXCEPT ![c].timers = @ \ {id}]
       /\ invoked' = invoked \cup {id}
  /\ connecting' = [connecting EXCEPT ![c] = TRUE]
  /\ UNCHANGED serverVars
  /\ UNCHANGED <<ret, connected, queue, clientNow, context, directs, flushes, c2s, s2c,
                 ndrops, calls, appended, errSeen, storage, status>>

\* socket.on('connect_error')
ConnectError(c) ==
  /\ connecting[c] /\ ~connected[c]
  /\ connecting' = [connecting EXCEPT ![c] = FALSE]
  /\ \E r \in JitterDraws :
       LET next == attemptReconnection(rm[c], "disconnected", r)
       IN /\ rm' = [rm EXCEPT ![c] = next.rm]
          /\ status' = [status EXCEPT ![c] = next.status]
  /\ UNCHANGED serverVars
  /\ UNCHANGED <<ret, connected, queue, clientNow, context, directs, flushes, c2s, s2c,
                 ndrops, calls, appended, errSeen, storage, invoked>>

Connect == \E c \in Clients : TransportUp(c)
ReconnectTimeout == \E c \in Clients : ReconnectTimerFires(c)
ConnectFails == \E c \in Clients : ConnectError(c)
Drop == \E c \in Clients : TransportDown(c)
CreateSessionCall == \E c \in Clients, title \in Titles : ClientCreateSession(c, title)
JoinSessionCall == \E c \in Clients, sessionId \in SessionIds : ClientJoinSession(c, sessionId)
AddSegmentCall ==
  \E c \in Clients, sessionId \in SessionIds : \E content \in ContentsOf(c) :
    ClientAddSegment(c, sessionId, content)
SendTimeout == \E c \in Clients, cid \in 1..MaxCalls : DirectTimer(c, cid)
FlushTimeout == \E c \in Clients, f \in 1..(MaxDrops + 1) : FlushTimer(c, f)
ClientReceives == \E c \in Clients : Deliver(c)
ServerReceives == \E c \in Clients : ServerRecv(c)
Peer == \E p \in Peers : PeerStep(p)
PeerCreates == \E p \in Peers : PeerCreate(p)
AICompletes == \E sessionId \in SessionIds, ok \in BOOLEAN : AISettles(sessionId, ok)
Expiry == \E sessionId \in SessionIds : SessionExpires(sessionId)

Next ==
  \/ Connect \/ ReconnectTimeout \/ Drop \/ CreateSessionCall \/ JoinSessionCall \/ AddSegmentCall
  \/ SendTimeout \/ FlushTimeout \/ ClientReceives \/ ServerReceives \/ Peer
  \/ AICompletes \/ Expiry

\* ------------------------------------------------------- specifications
Init ==
  /\ sessions = [s \in {} |-> NoSession]
  /\ sessionTimers = {}
  /\ nextSession = 0
  /\ nextSegId = 0
  /\ now = 0
  /\ rooms = [c \in Conns |-> {}]
  /\ sockData = [c \in Conns |-> [sessionId |-> 0, participantId |-> 0]]
  /\ online = [c \in Conns |-> FALSE]
  /\ inbox = [c \in Conns |-> <<>>]
  /\ aiTasks = [s \in SessionIds |-> 0]
  /\ aiCalls = [s \in SessionIds |-> 0]
  /\ inviteTokens = [t \in {} |-> 0]
  /\ nextToken = 0
  /\ gen = NoGeneration
  /\ nreq = 0
  /\ ret = <<"none">>
  /\ connected = [c \in Clients |-> FALSE]
  /\ queue = [k \in Instances |-> <<>>]
  /\ clientNow = 0
  /\ context = [c \in Clients |-> [sessionId |-> 0, participantId |-> 0]]
  /\ directs = [c \in Clients |-> {}]
  /\ flushes = [c \in Clients |-> <<>>]
  /\ c2s = [c \in Clients |-> <<>>]
  /\ s2c = [c \in Clients |-> <<>>]
  /\ ndrops = 0
  /\ calls = [k \in 1..MaxCalls |-> Call(0, <<>>, "none")]
  /\ appended = {}
  /\ errSeen = {}
  /\ storage = NoItem
  /\ rm = [c \in Clients |-> NewManager]
  /\ invoked = {}
  /\ status = [c \in Clients |-> "disconnected"]
  /\ connecting = [c \in Clients |-> TRUE]

\* The gateway driven by raw connections, as the socket tests drive it.
GwConnect == \E c \in Conns : ServerConnect(c) /\ UNCHANGED <<nreq, ret>> /\ UNCHANGED clientVars
GwDisconnect ==
  \E c \in Conns :
    /\ nreq < MaxRequests /\ nreq' = nreq + 1
    /\ ServerDisconnect(c) /\ UNCHANGED ret /\ UNCHANGED clientVars
GwSessionCreate ==
  \E c \in Conns, title \in Titles :
    OnSessionCreate(c, title, UserName(c)) /\ UNCHANGED ret /\ UNCHANGED clientVars
GwSessionJoin ==
  \E c \in Conns, sessionId \in SessionIds :
    OnSessionJoin(c, sessionId, UserName(c)) /\ UNCHANGED ret /\ UNCHANGED clientVars
GwSessionReconnect ==
  \E c \in Conns, sessionId \in SessionIds :
    OnSessionReconnect(c, sessionId, c) /\ UNCHANGED ret /\ UNCHANGED clientVars
GwSegmentAdd ==
  \E c \in Conns, sessionId \in SessionIds : \E content \in ContentsOf(c) :
    OnSegmentAdd(c, sessionId, content, 0) /\ UNCHANGED ret /\ UNCHANGED clientVars
GwAIGenerated ==
  \E sessionId \in SessionIds, ok \in BOOLEAN :
    AIGenerated(sessionId, ok) /\ UNCHANGED ret /\ UNCHANGED clientVars
GwSessionExport ==
  \E c \in Conns, sessionId \in SessionIds, format \in Formats :
    OnSessionExport(c, sessionId, format) /\ UNCHANGED ret /\ UNCHANGED clientVars
GwExpire ==
  \E sessionId \in SessionIds :
    /\ nreq < MaxRequests /\ nreq' = nreq + 1
    /\ ExpireSession(sessionId) /\ UNCHANGED ret /\ UNCHANGED clientVars

GatewayNext ==
  \/ GwConnect \/ GwDisconnect \/ GwSessionCreate \/ GwSessionJoin
  \/ GwSessionReconnect \/ GwSegmentAdd \/ GwAIGenerated \/ GwSessionExport
  \/ GwExpire

GatewaySpec == Init /\ [][GatewayNext]_vars

\* The gateway with a second session: connections that create, join or
\* rejoin one session after another.
RoSessionCreate ==
  \E c \in Conns, title \in Titles :
    /\ OnSessionCreateUpTo(c, title, UserName(c), MaxRooms)
    /\ UNCHANGED ret /\ UNCHANGED clientVars

RoomNext ==
  \/ GwConnect \/ GwDisconnect \/ RoSessionCreate \/ GwSessionJoin
  \/ GwSessionReconnect \/ GwSegmentAdd

RoomSpec == Init /\ [][RoomNext]_vars

\* The gateway while generateHorrorElement is awaited: nothing bounds the
\* await, and the inactivity timer of the session may fire before it settles.
LtExpire ==
  \E sessionId \in SessionIds :
    ExpireSession(sessionId) /\ UNCHANGED <<nreq, ret>> /\ UNCHANGED clientVars

LateNext ==
  \/ GwConnect \/ GwSessionCreate \/ GwSessionJoin \/ GwSegmentAdd
  \/ GwAIGenerated \/ LtExpire

LateSpec == Init /\ [][LateNext]_vars

\* the client, the wire and the server together
Spec == Init /\ [][Next]_vars

\* StoryManager called directly, as its property tests call it.
gatewayOnly == <<now, rooms, sockData, online, inbox, aiTasks, aiCalls, inviteTokens, nextToken, gen, nreq, connected,
                 queue, clientNow, context, directs, flushes, c2s, s2c, ndrops,
                 calls, appended, errSeen, storage, rm, invoked, status, connecting>>

SMCreateSession ==
  \E title \in Titles :
    /\ nextSession < MaxSessions
    /\ sessions' = createSession(sessions, nextSession + 1, title)
    /\ nextSession' = nextSession + 1
    /\ ret' = <<"createSession", sessions'[nextSession + 1]>>
    /\ UNCHANGED <<sessionTimers, nextSegId>>
    /\ UNCHANGED gatewayOnly

SMAddParticipant ==
  \E sessionId \in SessionIds, c \in Conns :
    /\ sessions' = addParticipant(sessions, sessionId, [id |-> c, name |-> UserName(c)])
    /\ sessionTimers' = refreshSessionTimeout(sessionTimers, sessions, sessionId)
    /\ ret' = <<"addParticipant", sessionId>>
    /\ UNCHANGED <<nextSession, nextSegId>>
    /\ UNCHANGED gatewayOnly

SMAddSegment ==
  \E sessionId \in SessionIds, timestamp \in 0..MaxStamp,
     contributorType \in {"user", "ai"} :
    /\ nextSegId < MaxDirect
    /\ sessions' = addSegment(sessions, sessionId,
         Segment(nextSegId + 1, <<"A">>, 1, contributorType, timestamp, 0))
    /\ sessionTimers' = refreshSessionTimeout(sessionTimers, sessions, sessionId)
    /\ nextSegId' = nextSegId + 1
    /\ ret' = <<"addSegment", sessionId>>
    /\ UNCHANGED nextSession
    /\ UNCHANGED gatewayOnly

SMGetSegments ==
  \E sessionId \in SessionIds :
    /\ ret' = <<"getSegments", getSegments(sessionId)>>
    /\ UNCHANGED <<sessions, sessionTimers, nextSession, nextSegId>>
    /\ UNCHANGED gatewayOnly

SMGetSession ==
  \E sessionId \in SessionIds :
    /\ ret' = <<"getSession", getSession(sessionId), sessionId>>
    /\ UNCHANGED <<sessions, sessionTimers, nextSession, nextSegId>>
    /\ UNCHANGED gatewayOnly

SMExportSession ==
  \E sessionId \in SessionIds, format \in Formats :
    /\ ret' = IF HasSession(sessionId)
              THEN <<"exportSession", exportSession(sessions, sessionId, format),
                     sessionId>>
              ELSE <<"throw", "Session not found", sessionId>>
    /\ UNCHANGED <<sessions, sessionTimers, nextSession, nextSegId>>
    /\ UNCHANGED gatewayOnly

SMExpire ==
  \E sessionId \in SessionIds :
    /\ sessionId \in sessionTimers
    /\ sessions' = [s \in DOMAIN sessions \ {sessionId} |-> sessions[s]]
    /\ sessionTimers' = sessionTimers \ {sessionId}
    /\ ret' = <<"expire", sessionId>>
    /\ UNCHANGED <<nextSession, nextSegId>>
    /\ UNCHANGED gatewayOnly

ManagerNext ==
  \/ SMCreateSession \/ SMAddParticipant \/ SMAddSegment \/ SMGetSegments
  \/ SMGetSession \/ SMExportSession \/ SMExpire

ManagerSpec == Init /\ [][ManagerNext]_vars

\* StoryManager with time passing: an inactivity timer that stays armed fires
EvictionSpec ==
  Init /\ [][ManagerNext]_vars /\ WF_<<sessions, sessionTimers>>(SMExpire)

\* OfflineQueue called directly, as its unit tests call it; the instance is
\* that of client 1 and ret records the call and what it returned.
queueOnly == <<sessions, sessionTimers, nextSession, nextSegId, now, rooms, sockData,
               online, inbox, aiTasks, aiCalls, inviteTokens, nextToken, gen, nreq, connected, context, directs, flushes,
               c2s, s2c, ndrops, calls, appended, errSeen, rm, invoked, status,
               connecting>>

OQEnqueue ==
  \E sessionId \in SessionIds, t \in {clientNow, clientNow + 1} :
    \E content \in ContentsOf(1) :
      /\ t <= MaxClientClock
      /\ Len(queue[1]) < MaxQueue
      /\ clientNow' = t
      /\ queue' = [queue EXCEPT ![1] = enqueue(@, sessionId, content, t, 0)]
      /\ storage' = saveToStorage(queue'[1])
      /\ ret' = <<"enqueue", sessionId, t>>
      /\ UNCHANGED queueOnly

OQDequeue ==
  \E sessionId \in SessionIds, timestamp \in 0..MaxClientClock :
    /\ queue' = [queue EXCEPT ![1] = dequeue(@, sessionId, timestamp)]
    /\ storage' = saveToStorage(queue'[1])
    /\ ret' = <<"dequeue", sessionId, timestamp>>
    /\ UNCHANGED clientNow
    /\ UNCHANGED queueOnly

OQIncrementRetry ==
  \E sessionId \in SessionIds, timestamp \in 0..MaxClientClock :
    LET r == incrementRetry(queue[1], sessionId, timestamp)
        counted == [i \in 1..Len(r.queue) |->
                      IF SameEntry(r.queue[i], sessionId, timestamp)
                      THEN [r.queue[i] EXCEPT !.seen = @ + 1] ELSE r.queue[i]]
    IN
    /\ queue' = [queue EXCEPT ![1] = counted]
    /\ storage' = IF FindEntry(queue[1], sessionId, timestamp) # 0
                  THEN saveToStorage(counted) ELSE storage
    /\ ret' = <<"incrementRetry", sessionId, timestamp, r.result>>
    /\ UNCHANGED clientNow
    /\ UNCHANGED queueOnly

OQClearSession ==
  \E sessionId \in SessionIds :
    /\ queue' = [queue EXCEPT ![1] = clearSession(@, sessionId)]
    /\ storage' = saveToStorage(queue'[1])
    /\ ret' = <<"clearSession", sessionId>>
    /\ UNCHANGED clientNow
    /\ UNCHANGED queueOnly

OQClearAll ==
  /\ queue' = [queue EXCEPT ![1] = clearAll(@)]
  /\ storage' = saveToStorage(queue'[1])
  /\ ret' = <<"clearAll">>
  /\ UNCHANGED clientNow
  /\ UNCHANGED queueOnly

\* new OfflineQueue(): the constructor loads the queue from storage
OQConstruct ==
  /\ queue' = [queue EXCEPT ![1] = loadFromStorage(storage)]
  /\ ret' = <<"new", Len(queue'[1])>>
  /\ UNCHANGED <<storage, clientNow>>
  /\ UNCHANGED queueOnly

QueueNext ==
  \/ OQEnqueue \/ OQDequeue \/ OQIncrementRetry \/ OQClearSession \/ OQClearAll
  \/ OQConstruct

QueueSpec == Init /\ [][QueueNext]_vars

\* syncOfflineQueue run over the OfflineQueue of client 1, with the outcome of
\* each awaited sendSegment given: it resolves, it rejects on an error event
\* for the item, or it rejects with 'Not connected'.
Outcomes == {"resolved", "error", "offline"}

syncOnly == <<sessions, sessionTimers, nextSession, nextSegId, now, rooms, sockData,
              online, inbox, aiTasks, aiCalls, inviteTokens, nextToken, gen, nreq, connected,
              context, directs, flushes, c2s, s2c, ndrops, appended, rm, invoked,
              status, connecting>>

RECURSIVE syncOfflineQueue(_, _, _, _, _, _)
\* the loop of syncOfflineQueue from item idx on: [queue, exceeded, alerted],
\* exceeded holding the items whose retry limit was reached (the branch that
\* logs 'Max retries exceeded') and alerted those an error event arrived for
syncOfflineQueue(q, items, idx, outcome, exceeded, alerted) ==
  IF idx > Len(items) THEN [queue |-> q, exceeded |-> exceeded, alerted |-> alerted]
  ELSE LET item == items[idx] IN
       IF outcome[idx] = "resolved"
       THEN syncOfflineQueue(dequeue(q, item.sessionId, item.timestamp), items,
                             idx + 1, outcome, exceeded, alerted)
       ELSE LET r == incrementRetry(q, item.sessionId, item.timestamp)
                found == FindEntry(q, item.sessionId, item.timestamp) # 0
            IN syncOfflineQueue(r.queue, items, idx + 1, outcome,
                 IF found /\ ~r.result THEN exceeded \cup {item.cid} ELSE exceeded,
                 IF outcome[idx] = "error" THEN alerted \cup {item.cid} ELSE alerted)

\* addSegment while the socket is not connected: the contribution is queued
SyAddSegment ==
  \E sessionId \in SessionIds, t \in {clientNow, clientNow + 1}, cid \in 1..MaxCalls :
    /\ t <= MaxClientClock
    /\ calls[cid].status = "none"
    /\ \A k \in 1..(cid - 1) : calls[k].status # "none"
    /\ clientNow' = t
    /\ queue' = [queue EXCEPT ![1] = enqueue(@, sessionId, <<"A">>, t, cid)]
    /\ calls' = [calls EXCEPT ![cid] = Call(sessionId, <<"A">>, "queued")]
    /\ storage' = saveToStorage(queue'[1])
    /\ ret' = <<"addSegment", {cid}>>
    /\ UNCHANGED errSeen
    /\ UNCHANGED syncOnly

\* the socket connects and syncOfflineQueue runs to its end
SySync ==
  /\ queue[1] # <<>>
  /\ \E outcome \in [1..Len(queue[1]) -> Outcomes] :
       LET pass == syncOfflineQueue(queue[1], queue[1], 1, outcome, {}, {}) IN
       /\ queue' = [queue EXCEPT ![1] = pass.queue]
       /\ errSeen' = errSeen \cup pass.alerted
       /\ ret' = <<"syncOfflineQueue", pass.exceeded>>
  /\ storage' = IF queue'[1] # queue[1] THEN saveToStorage(queue'[1]) ELSE storage
  /\ UNCHANGED <<clientNow, calls>>
  /\ UNCHANGED syncOnly

SyncNext == SyAddSegment \/ SySync

SyncSpec == Init /\ [][SyncNext]_vars

\* Two OfflineQueue instances over the one storage key: each keeps the queue
\* it loaded when it was constructed (here, before anything was stored) and
\* writes its whole in-memory queue back on every change. An instance
\* dequeues and retries the entries of its own queue, as syncOfflineQueue does.
ShEnqueue ==
  \E k \in Instances, sessionId \in {1}, t \in {clientNow, clientNow + 1},
     cid \in 1..MaxCalls :
    /\ t <= MaxClientClock
    /\ calls[cid].status = "none"
    /\ \A j \in 1..(cid - 1) : calls[j].status # "none"
    /\ clientNow' = t
    /\ queue' = [queue EXCEPT ![k] = enqueue(@, sessionId, <<"A">>, t, cid)]
    /\ calls' = [calls EXCEPT ![cid] = Call(sessionId, <<"A">>, "queued")]
    /\ storage' = saveToStorage(queue'[k])
    /\ ret' = <<"enqueue", sessionId, t, k>>
    /\ UNCHANGED errSeen
    /\ UNCHANGED syncOnly

ShDequeue ==
  \E k \in Instances :
    \E i \in 1..Len(queue[k]) :
      /\ queue' = [queue EXCEPT
                     ![k] = dequeue(@, queue[k][i].sessionId, queue[k][i].timestamp)]
      /\ storage' = saveToStorage(queue'[k])
      /\ ret' = <<"dequeue", queue[k][i].sessionId, queue[k][i].timestamp, k>>
      /\ UNCHANGED <<clientNow, calls, errSeen>>
      /\ UNCHANGED syncOnly

ShIncrementRetry ==
  \E k \in Instances :
    \E i \in 1..Len(queue[k]) :
      LET r == incrementRetry(queue[k], queue[k][i].sessionId, queue[k][i].timestamp) IN
      /\ queue' = [queue EXCEPT ![k] = r.queue]
      /\ storage' = saveToStorage(r.queue)
      /\ ret' = <<"incrementRetry", queue[k][i].sessionId, queue[k][i].timestamp, k>>
      /\ UNCHANGED <<clientNow, calls, errSeen>>
      /\ UNCHANGED syncOnly

SharedNext == ShEnqueue \/ ShDequeue \/ ShIncrementRetry

SharedSpec == Init /\ [][SharedNext]_vars

\* The invite functions called directly; ret records the call, what it
\* returned and its argument.
inviteOnly == <<sessions, sessionTimers, nextSession, nextSegId, now, rooms, sockData,
                online, inbox, aiTasks, aiCalls, gen, nreq, connected, queue, clientNow,
                context, directs, flushes, c2s, s2c, ndrops, calls, appended, errSeen,
                storage, rm, invoked, status, connecting>>

IvGenerate ==
  \E sessionId \in SessionIds :
    /\ nextToken < MaxTokens
    /\ nextToken' = nextToken + 1
    /\ inviteTokens' = generateInviteLink(inviteTokens, nextToken + 1, sessionId)
    /\ ret' = <<"generateInviteLink", InviteLink(nextToken + 1), sessionId>>
    /\ UNCHANGED inviteOnly

IvValidate ==
  \E token \in TokenIds :
    /\ ret' = <<"validateInviteToken", validateInviteToken(inviteTokens, token), token>>
    /\ UNCHANGED <<inviteTokens, nextToken>>
    /\ UNCHANGED inviteOnly

IvRevoke ==
  \E token \in TokenIds :
    /\ inviteTokens' = revokeInviteToken(inviteTokens, token)
    /\ ret' = <<"revokeInviteToken", 0, token>>
    /\ UNCHANGED nextToken
    /\ UNCHANGED inviteOnly

InviteNext == IvGenerate \/ IvValidate \/ IvRevoke

InviteSpec == Init /\ [][InviteNext]_vars

\* StoryManager creating several sessions: ids run up to MaxCreated, and the
\* id after the last is never created.
CreatedIds == 1..MaxCreated + 1

CrCreateSession ==
  \E title \in Titles :
    /\ nextSession < MaxCreated
    /\ sessions' = createSession(sessions, nextSession + 1, title)
    /\ nextSession' = nextSession + 1
    /\ ret' = <<"createSession", sessions'[nextSession + 1]>>
    /\ UNCHANGED <<sessionTimers, nextSegId>>
    /\ UNCHANGED gatewayOnly

CrAddParticipant ==
  \E sessionId \in CreatedIds, c \in Conns :
    /\ sessions' = addParticipant(sessions, sessionId, [id |-> c, name |-> UserName(c)])
    /\ sessionTimers' = refreshSessionTimeout(sessionTimers, sessions, sessionId)
    /\ ret' = <<"addParticipant", sessionId>>
    /\ UNCHANGED <<nextSession, nextSegId>>
    /\ UNCHANGED gatewayOnly

CrGetSession ==
  \E sessionId \in CreatedIds :
    /\ ret' = <<"getSession", getSession(sessionId), sessionId>>
    /\ UNCHANGED <<sessions, sessionTimers, nextSession, nextSegId>>
    /\ UNCHANGED gatewayOnly

CrExpire ==
  \E sessionId \in CreatedIds :
    /\ sessionId \in sessionTimers
    /\ sessions' = [s \in DOMAIN sessions \ {sessionId} |-> sessions[s]]
    /\ sessionTimers' = sessionTimers \ {sessionId}
    /\ ret' = <<"expire", sessionId>>
    /\ UNCHANGED <<nextSession, nextSegId>>
    /\ UNCHANGED gatewayOnly

CreateNext == CrCreateSession \/ CrAddParticipant \/ CrGetSession \/ CrExpire

CreateSpec == Init /\ [][CreateNext]_vars

\* The reconnect loop of one client on a network where a connection attempt
\* may fail: a timer that is armed fires, and a connection attempt that was
\* started ends in 'connect' or in 'connect_error'.
ReconnectNext == Connect \/ ReconnectTimeout \/ ConnectFails \/ Drop

ReconnectSpec ==
  /\ Init /\ [][ReconnectNext]_vars
  /\ WF_vars(ReconnectTimeout)
  /\ WF_vars(Connect \/ ConnectFails)

\* disconnect(): clearTimer, socket.disconnect(), status. The socket closes
\* (reason 'io client disconnect', which starts no reconnection) and a
\* connection attempt still under way is abandoned with it.
LocalDisconnect(c) ==
  /\ rm' = [rm EXCEPT ![c] = clearTimer(@)]
  /\ connected' = [connected EXCEPT ![c] = FALSE]
  /\ connecting' = [connecting EXCEPT ![c] = FALSE]
  /\ status' = [status EXCEPT ![c] = "disconnected"]
  /\ IF connected[c]
     THEN /\ ServerDisconnect(c)
          /\ c2s' = [c2s EXCEPT ![c] = <<>>]
          /\ s2c' = [s2c EXCEPT ![c] = <<>>]
     ELSE /\ UNCHANGED <<sessions, sessionTimers, nextSession, nextSegId, now, rooms,
                         sockData, online, inbox, aiTasks, aiCalls, inviteTokens,
                         nextToken, gen>>
          /\ UNCHANGED <<c2s, s2c>>
  /\ ret' = <<"disconnect", c>>
  /\ UNCHANGED <<nreq, queue, clientNow, context, directs, flushes, ndrops, calls,
                 appended, errSeen, storage, invoked>>

\* reconnect(): nothing when connected, else reset and socket.connect()
LocalReconnect(c) ==
  /\ IF connected[c]
     THEN UNCHANGED <<rm, connecting>>
     ELSE /\ rm' = [rm EXCEPT ![c] = reset(@)]
          /\ connecting' = [connecting EXCEPT ![c] = TRUE]
  /\ ret' = <<"reconnect", c>>
  /\ UNCHANGED serverVars
  /\ UNCHANGED <<connected, queue, clientNow, context, directs, flushes, c2s, s2c,
                 ndrops, calls, appended, errSeen, storage, invoked, status>>

\* connect() on a client whose socket is closed: a new socket is opened
LocalConnect(c) ==
  /\ ~connected[c] /\ ~connecting[c]
  /\ connecting' = [connecting EXCEPT ![c] = TRUE]
  /\ ret' = <<"connect", c>>
  /\ UNCHANGED serverVars
  /\ UNCHANGED <<connected, queue, clientNow, context, directs, flushes, c2s, s2c,
                 ndrops, calls, appended, errSeen, storage, rm, invoked, status>>

DisconnectCall ==
  \E c \in Clients : rm[c].nextTimer <= MaxLocal /\ LocalDisconnect(c)
ReconnectCall ==
  \E c \in Clients : rm[c].nextTimer <= MaxLocal /\ LocalReconnect(c)
ConnectCall ==
  \E c \in Clients : rm[c].nextTimer <= MaxLocal /\ LocalConnect(c)

\* The reconnect loop with the local calls disconnect(), reconnect() and
\* connect(); ret holds the last of these calls.
DisconnectNext ==
  \/ Connect \/ ReconnectTimeout \/ ConnectFails \/ Drop
  \/ DisconnectCall \/ ReconnectCall \/ ConnectCall

DisconnectSpec == Init /\ [][DisconnectNext]_vars

\* ------------------------------------------------------------ AICoAuthor
aiMaxRetries == 3

\* what a call of model.generateContent comes back with: text, a prompt or a
\* candidate blocked by the safety filters, empty text, or an exception
ProviderOutcomes == {"content", "blocked", "safety", "empty", "throws"}

\* state the AICoAuthor does not touch
generateOnly == <<sessions, sessionTimers, nextSession, nextSegId, now, rooms, sockData,
                  online, inbox, aiTasks, aiCalls, inviteTokens, nextToken, nreq, ret,
                  connected, queue, clientNow, context, directs, flushes, c2s, s2c,
                  ndrops, calls, appended, errSeen, storage, rm, invoked, status,
                  connecting>>

AfterAttempt_Again(attempt, outcome) ==
  IF outcome = "content" THEN [phase |-> "resolved", attempt |-> attempt]
  ELSE [phase |-> "sleeping", attempt |-> attempt]

\* one turn of the retry loop once generateContent came back: return the
\* element, or catch the error and sleep before the next attempt, or leave
\* the loop after the last attempt and throw
AfterAttempt(attempt, outcome) ==
  IF outcome = "content" THEN [phase |-> "resolved", attempt |-> attempt]
  ELSE IF attempt < aiMaxRetries - 1 THEN [phase |-> "sleeping", attempt |-> attempt]
  ELSE [phase |-> "rejected", attempt |-> attempt + 1]

\* new AICoAuthor(threshold, maxContext, apiKey?)
GnConstruct ==
  \E apiKey \in BOOLEAN :
    /\ gen.phase \notin {"calling", "sleeping"}
    /\ gen' = [NoGeneration EXCEPT !.model = apiKey]
    /\ UNCHANGED generateOnly

\* generateHorrorElement(context) is called: it throws at once without a
\* model, else it enters the loop and calls the provider
GnGenerate ==
  /\ gen.phase \notin {"calling", "sleeping"}
  /\ gen' = [gen EXCEPT !.phase = IF gen.model THEN "calling" ELSE "rejected",
                         !.attempt = 0, !.outcomes = <<>>]
  /\ UNCHANGED generateOnly

\* the awaited generateContent comes back
GnProviderReturns ==
  \E outcome \in ProviderOutcomes :
    /\ gen.phase = "calling"
    /\ gen' = [gen EXCEPT !.outcomes = Append(@, outcome),
                           !.phase = AfterAttempt(gen.attempt, outcome).phase,
                           !.attempt = AfterAttempt(gen.attempt, outcome).attempt]
    /\ UNCHANGED generateOnly

\* the awaited sleep(delay) is over: attempt++ and the next provider call
GnSleepEnds ==
  /\ gen.phase = "sleeping"
  /\ gen' = [gen EXCEPT !.phase = "calling", !.attempt = @ + 1]
  /\ UNCHANGED generateOnly

GenerateNext == GnConstruct \/ GnGenerate \/ GnProviderReturns \/ GnSleepEnds

\* every provider call returns and every sleep ends
GenerateSpec ==
  /\ Init /\ [][GenerateNext]_vars
  /\ WF_vars(GnProviderReturns) /\ WF_vars(GnSleepEnds)

\* One client that creates a session and contributes to it across two
\* transport drops, so that a flush can still be awaiting its sendSegment
\* when the next connection starts another one; reconnect() may be called.
OvDrop == \E c \in Clients : TransportDrops(c, MaxOverlap)
OvFlushTimeout == \E c \in Clients, f \in 1..(MaxOverlap + 1) : FlushTimer(c, f)
OvReconnectCall ==
  \E c \in Clients : LocalReconnect(c) /\ ~connected[c] /\ ~connecting[c]
\* a reconnect timer runs for 750 ms or more: the 100 ms timers of the sends
\* that were under way when it was armed have fired by then
OvReconnectTimeout ==
  \E c \in Clients :
    flushes[c] = <<>> /\ directs[c] = {} /\ ReconnectTimerFires(c)

OverlapNext ==
  \/ Connect \/ OvReconnectTimeout \/ OvDrop \/ OvReconnectCall
  \/ CreateSessionCall \/ AddSegmentCall
  \/ SendTimeout \/ OvFlushTimeout \/ ClientReceives \/ ServerReceives

OverlapSpec == Init /\ [][OverlapNext]_vars

\* Sessions of the client and of another participant, without contributions:
\* who is in which room across a drop and a reconnect.
RejoinNext ==
  \/ Connect \/ ReconnectTimeout \/ Drop
  \/ CreateSessionCall \/ JoinSessionCall
  \/ ClientReceives \/ ServerReceives
  \/ Peer \/ PeerCreates

RejoinSpec == Init /\ [][RejoinNext]_vars

\* One session and the contributions to it, long enough for the AI co-author
\* to be due twice: connections, session:create, session:join, the segment:add
\* events of one connection and the AI calls settling.
CdSegmentAdd ==
  \E c \in Clients, sessionId \in SessionIds : \E content \in ContentsOf(c) :
    /\ online[c] /\ nreq < MaxCadence
    /\ nreq' = nreq + 1
    /\ HandleSegmentAdd(c, sessionId, content, 0, MaxLog)
    /\ UNCHANGED ret /\ UNCHANGED clientVars

CdAIGenerated ==
  \E sessionId \in SessionIds, ok \in BOOLEAN :
    GenerationSettles(sessionId, ok, MaxLog) /\ UNCHANGED ret /\ UNCHANGED clientVars

CadenceNext ==
  GwConnect \/ GwSessionCreate \/ GwSessionJoin \/ CdSegmentAdd \/ CdAIGenerated

CadenceSpec == Init /\ [][CadenceNext]_vars

\* Every handler of the gateway with the request it handled recorded in ret as
\* <<event, connection, session id or token, argument>>; sessions may expire.
RqConnect ==
  \E c \in Conns :
    ServerConnect(c) /\ ret' = <<"connect", c, 0, 0>>
    /\ UNCHANGED nreq /\ UNCHANGED clientVars
RqSessionCreate ==
  \E c \in Conns, title \in Titles :
    OnSessionCreate(c, title, UserName(c)) /\ ret' = <<"session:create", c, 0, title>>
    /\ UNCHANGED clientVars
RqSessionJoin ==
  \E c \in Conns, sessionId \in SessionIds, userName \in Names :
    OnSessionJoin(c, sessionId, userName)
    /\ ret' = <<"session:join", c, sessionId, userName>>
    /\ UNCHANGED clientVars
RqSessionReconnect ==
  \E c \in Conns, sessionId \in SessionIds :
    OnSessionReconnect(c, sessionId, c)
    /\ ret' = <<"session:reconnect", c, sessionId, c>>
    /\ UNCHANGED clientVars
RqSegmentAdd ==
  \E c \in Conns, sessionId \in SessionIds, content \in SubmittedContents :
    OnSegmentAdd(c, sessionId, content, 0)
    /\ ret' = <<"segment:add", c, sessionId, content>>
    /\ UNCHANGED clientVars
RqSessionExport ==
  \E c \in Conns, sessionId \in SessionIds, format \in Formats :
    OnSessionExport(c, sessionId, format)
    /\ ret' = <<"session:export", c, sessionId, format>>
    /\ UNCHANGED clientVars
RqInviteGenerate ==
  \E c \in Conns, sessionId \in SessionIds :
    OnInviteGenerate(c, sessionId)
    /\ ret' = <<"invite:generate", c, sessionId, 0>>
    /\ UNCHANGED clientVars
RqInviteValidate ==
  \E c \in Conns, token \in TokenIds :
    OnInviteValidate(c, token)
    /\ ret' = <<"invite:validate", c, token, 0>>
    /\ UNCHANGED clientVars
RqExpire ==
  \E sessionId \in SessionIds :
    /\ nreq < MaxRequests /\ nreq' = nreq + 1
    /\ ExpireSession(sessionId)
    /\ ret' = <<"expire", 0, sessionId, 0>>
    /\ UNCHANGED clientVars

RequestNext ==
  \/ RqConnect \/ RqSessionCreate \/ RqSessionJoin \/ RqSessionReconnect
  \/ RqSegmentAdd \/ RqSessionExport \/ RqInviteGenerate \/ RqInviteValidate
  \/ RqExpire

RequestSpec == Init /\ [][RequestNext]_vars

\* ReconnectionManager called directly; the instance is that of client 1 and
\* ret records the call and what it returned.
backoffOnly == <<sessions, sessionTimers, nextSession, nextSegId, now, rooms, sockData,
                 online, inbox, aiTasks, aiCalls, inviteTokens, nextToken, gen, nreq, connected, queue, clientNow, context,
                 directs, flushes, c2s, s2c, ndrops, calls, appended, errSeen,
                 storage, status, connecting>>

RMGetNextDelay ==
  \E r \in JitterDraws :
    LET d == getNextDelay(rm[1], r) IN
    /\ rm[1].attempt < MaxBackoff
    /\ rm' = [rm EXCEPT ![1] = d.rm]
    /\ ret' = <<"getNextDelay", d.delay, d.capped>>
    /\ UNCHANGED invoked
    /\ UNCHANGED backoffOnly

RMReset ==
  /\ rm' = [rm EXCEPT ![1] = reset(@)]
  /\ ret' = <<"reset">>
  /\ UNCHANGED invoked
  /\ UNCHANGED backoffOnly

RMScheduleReconnect ==
  \E r \in JitterDraws :
    /\ rm[1].nextTimer < MaxTimers
    /\ rm' = [rm EXCEPT ![1] = scheduleReconnect(@, r)]
    /\ ret' = <<"scheduleReconnect", rm[1].timers # {}, isMaxAttemptsReached(rm[1])>>
    /\ UNCHANGED invoked
    /\ UNCHANGED backoffOnly

RMClearTimer ==
  /\ rm' = [rm EXCEPT ![1] = clearTimer(@)]
  /\ ret' = <<"clearTimer">>
  /\ UNCHANGED invoked
  /\ UNCHANGED backoffOnly

\* an armed timer fires and runs the callback it was armed with
RMTimerFires ==
  \E id \in rm[1].timers :
    /\ rm' = [rm EXCEPT ![1].timers = @ \ {id}]
    /\ invoked' = invoked \cup {id}
    /\ ret' = <<"timer", id>>
    /\ UNCHANGED backoffOnly

BackoffNext ==
  \/ RMGetNextDelay \/ RMReset \/ RMScheduleReconnect \/ RMClearTimer \/ RMTimerFires

BackoffSpec == Init /\ [][BackoffNext]_vars

\* ---------------------------------------------------------------- claims
Last(s) == s[Len(s)]

Chronological(segs) ==
  \A i \in 1..Len(segs) - 1 : segs[i].timestamp <= segs[i + 1].timestamp

\* the segment:added events connection c received for room R
Added(c, R) == SelectSeq(inbox[c], LAMBDA e : e.type = "segment:added" /\ e.sid = R)

InLog(R, segment) ==
  \E p \in 1..Len(sessions[R].segments) : sessions[R].segments[p] = segment

LogPos(R, segment) ==
  CHOOSE p \in 1..Len(sessions[R].segments) : sessions[R].segments[p] = segment

\* C2: when a connection joined to room R has a valid segment:add appended (it
\* is acknowledged), every connection joined to R at that moment, the sender
\* included, is sent a segment:added event carrying that very segment of the log.
C2_BroadcastCompleteness ==
  [][\A c \in Conns :
       (Len(inbox'[c]) > Len(inbox[c])
        /\ Last(inbox'[c]).type = "segment:acknowledged"
        /\ Last(inbox'[c]).sid \in rooms[c])
       => LET R == Last(inbox'[c]).sid
              segment == Last(inbox'[c]).segs[1]
          IN /\ R \in DOMAIN sessions'
             /\ \E p \in 1..Len(sessions'[R].segments) : sessions'[R].segments[p] = segment
             /\ \A k \in Conns :
                  R \in rooms[k] =>
                    \E i \in (Len(inbox[k]) + 1)..Len(inbox'[k]) :
                      /\ inbox'[k][i].type = "segment:added"
                      /\ inbox'[k][i].sid = R
                      /\ inbox'[k][i].segs = <<segment>>]_vars

\* two connections joined to one room have both been sent the segment:added
\* event of the same segment
C2_Witness ==
  \E R \in DOMAIN sessions :
    /\ \A k \in Conns : R \in rooms[k]
    /\ \E segment \in {sessions[R].segments[p] : p \in 1..Len(sessions[R].segments)} :
         \A k \in Conns :
           \E i \in 1..Len(Added(k, R)) : Added(k, R)[i].segs = <<segment>>

\* C3: the segment:added events a connection has received for a room (user and
\* AI segments alike) come in the order in which the segments were appended
\* (ascending id) and in the order in which the log read by getSession holds them.
C3_BroadcastOrder ==
  \A c \in Conns : \A R \in DOMAIN sessions :
    LET a == Added(c, R)
    IN \A i, j \in 1..Len(a) :
         i < j =>
           /\ a[i].segs[1].id <= a[j].segs[1].id
           /\ InLog(R, a[i].segs[1]) /\ InLog(R, a[j].segs[1])
           /\ LogPos(R, a[i].segs[1]) <= LogPos(R, a[j].segs[1])

\* a connection has received a user segment and then an AI segment of the same
\* room, both stamped with the same clock reading
C3_Witness ==
  \E c \in Conns : \E R \in DOMAIN sessions :
    LET a == Added(c, R)
    IN \E i, j \in 1..Len(a) :
         /\ i < j
         /\ a[i].segs[1].contributorType = "user"
         /\ a[j].segs[1].contributorType = "ai"
         /\ a[i].segs[1].timestamp = a[j].segs[1].timestamp

\* C4: every session:updated sent in answer to session:join or
\* session:reconnect carries the entire segment log of that session as it stands,
\* in chronological order.
C4_FullContextSync ==
  [][\A c \in Conns :
       \A i \in (Len(inbox[c]) + 1)..Len(inbox'[c]) :
         inbox'[c][i].type = "session:updated" =>
           LET R == inbox'[c][i].sid
           IN /\ R \in DOMAIN sessions'
              /\ inbox'[c][i].segs = sessions'[R].segments
              /\ Len(inbox'[c][i].segs) = Len(getSegments(R))
              /\ Chronological(inbox'[c][i].segs)]_vars

\* a connection has received a session:updated carrying two segments
C4_Witness ==
  \E c \in Conns : \E i \in 1..Len(inbox[c]) :
    inbox[c][i].type = "session:updated" /\ Len(inbox[c][i].segs) = 2

\* what connection c observed, reduced to the session and segment events
Observed(c) ==
  LET seen == SelectSeq(inbox[c], LAMBDA e :
                e.type \in {"session:created", "session:updated", "segment:added"})
  IN [i \in 1..Len(seen) |->
        IF seen[i].type = "segment:added" THEN <<"segment:added", seen[i].segs[1].content>>
        ELSE <<seen[i].type, Len(seen[i].segs)>>]

\* connection 1 created the session, connection 2 joined it while it was empty,
\* then 1 added "A" and 2 added "B"; the server handled nothing else
C5_Scenario ==
  /\ nreq = 4 /\ nextSession = 1 /\ HasSession(1)
  /\ Len(inbox[1]) > 0 /\ inbox[1][1].type = "session:created"
  /\ Len(inbox[2]) > 0 /\ inbox[2][1].type = "session:updated"
  /\ inbox[2][1].segs = <<>>
  /\ Len(sessions[1].segments) = 2
  /\ sessions[1].segments[1].content = <<"A">>
  /\ sessions[1].segments[1].contributorId = 1
  /\ sessions[1].segments[2].content = <<"B">>
  /\ sessions[1].segments[2].contributorId = 2

\* C5: in the two-client scenario client 1 observes session:created,
\* segment:added(A), segment:added(B) and client 2 observes session:updated with
\* zero segments and then the same two segment:added events, exactly once each.
C5_TwoClientScenario ==
  C5_Scenario =>
    /\ Observed(1) = << <<"session:created", 0>>, <<"segment:added", <<"A">> >>,
                        <<"segment:added", <<"B">> >> >>
    /\ Observed(2) = << <<"session:updated", 0>>, <<"segment:added", <<"A">> >>,
                        <<"segment:added", <<"B">> >> >>

\* C7: after any sequence of addSegment calls with arbitrary timestamps the
\* segment list of every session, and the list returned by getSegments and
\* getSession, is non-decreasing in timestamp.
C7_ChronologicalInvariant ==
  /\ \A s \in DOMAIN sessions : Chronological(sessions[s].segments)
  /\ ret[1] = "getSegments" => Chronological(ret[2])
  /\ ret[1] = "getSession" => Chronological(ret[2].segments)

\* getSegments returned three segments that did not arrive in timestamp order
C7_Witness ==
  /\ ret[1] = "getSegments" /\ Len(ret[2]) = 3
  /\ \E i, j \in 1..3 : i < j /\ ret[2][i].id > ret[2][j].id

\* the step ran StoryManager.addSegment on the live session s: a segment id was
\* issued for a user segment acknowledged for s, or by an AI call settling for s
AddSegmentCalledOn(s) ==
  /\ nextSegId' = nextSegId + 1
  /\ \/ aiTasks'[s] < aiTasks[s]
     \/ \E c \in Conns :
          /\ Len(inbox'[c]) > Len(inbox[c])
          /\ Last(inbox'[c]).type = "segment:acknowledged"
          /\ Last(inbox'[c]).sid = s

\* C8: while a session exists no step removes or alters a segment of its log,
\* the log grows by at most one segment per step, and a step that runs
\* addSegment on it makes it exactly one longer.
C8_AppendOnlyLog ==
  [][\A s \in DOMAIN sessions \cap DOMAIN sessions' :
       /\ \A i \in 1..Len(sessions[s].segments) :
            \E j \in 1..Len(sessions'[s].segments) :
              sessions'[s].segments[j] = sessions[s].segments[i]
       /\ Len(sessions'[s].segments) \in
            {Len(sessions[s].segments), Len(sessions[s].segments) + 1}
       /\ AddSegmentCalledOn(s) =>
            Len(sessions'[s].segments) = Len(sessions[s].segments) + 1]_vars

\* a log of two segments that was exported after the second was appended
C8_Witness ==
  \E s \in DOMAIN sessions :
    /\ Len(sessions[s].segments) = 2
    /\ \E c \in Conns : \E i \in 1..Len(inbox[c]) :
         /\ inbox[c][i].type = "session:exported" /\ inbox[c][i].sid = s
         /\ Len(inbox[c][i].content.body) = 2

\* ------------------------------------------------- claims about the client
Resolved(cid) == calls[cid].status \in {"queued", "sent"}

InQueue(c, cid) == \E i \in 1..Len(queue[c]) : queue[c][i].cid = cid

\* the contribution is still on its way: emitted and not yet handled by the
\* server, or its error event not yet handled by the client
OnTheWire(c, cid) ==
  \/ \E i \in 1..Len(c2s[c]) : c2s[c][i].cid = cid
  \/ \E i \in 1..Len(s2c[c]) : s2c[c][i].cid = cid

\* C1: a contribution whose addSegment promise resolved is, in every later
\* state, appended to the server log, or still in the OfflineQueue, or a
\* failure was surfaced for it (an error event for it reached the client); read
\* generously, a contribution still on the wire is not counted as lost.
C1_NoSilentLoss ==
  \A c \in Clients, cid \in 1..MaxCalls :
    Resolved(cid) =>
      \/ cid \in appended
      \/ InQueue(c, cid)
      \/ cid \in errSeen
      \/ OnTheWire(c, cid)

\* the calls of addSegment made so far, in call order
Made == {cid \in 1..MaxCalls : calls[cid].status # "none"}

RECURSIVE UpTo(_)
UpTo(n) == IF n = 0 THEN <<>> ELSE Append(UpTo(n - 1), n)

\* the contributions the segment:added events received by k announce, in order
AddedCids(k, R) ==
  LET a == Added(k, R) IN [i \in 1..Len(a) |-> a[i].cid]

\* the flush scenario has run to its end: the client created session R, lost
\* its transport once, made all its N >= 1 calls while offline with valid
\* content for R, reconnected, and the flush and the server are done
FlushScenarioDone(c, R) ==
  /\ ndrops = 1 /\ connected[c]
  /\ Made # {}
  /\ \A cid \in Made : /\ calls[cid].status = "queued"
                       /\ calls[cid].sessionId = R
                       /\ validateSegment(calls[cid].content).valid
  /\ HasSession(R)
  /\ flushes[c] = <<>> /\ c2s[c] = <<>> /\ s2c[c] = <<>>
  /\ Made \subseteq appended

\* k is a member of room R and entered it before any queued contribution was
\* appended: no session snapshot sent to k holds one of them
InRoomBeforeFlush(k, R) ==
  /\ R \in rooms[k]
  /\ \A i \in 1..Len(inbox[k]) :
       inbox[k][i].sid = R /\ inbox[k][i].type \in {"session:created", "session:updated"}
         => \A j \in 1..Len(inbox[k][i].segs) : inbox[k][i].segs[j].cid \notin Made

\* C6: after N offline addSegment calls and a reconnect without further
\* transport failure, the queue is empty once the flush is over and every
\* member of the room has received exactly N segment:added events for the
\* queued contributions, in enqueue order.
C6_OfflineFlushScenario ==
  \A c \in Clients, R \in SessionIds :
    FlushScenarioDone(c, R) =>
      /\ queue[c] = <<>>
      /\ \A k \in Conns :
           InRoomBeforeFlush(k, R) => AddedCids(k, R) = UpTo(Cardinality(Made))

\* a step in which addSegment is called while the transport is down
OfflineCall(c, cid) ==
  /\ ~connected[c]
  /\ calls[cid].status = "none"
  /\ calls'[cid].status # "none"

\* C9: addSegment called while the transport is not connected appends exactly
\* one entry {sessionId, content, retryCount 0} at the end of the OfflineQueue,
\* emits nothing to the server and resolves its promise, so that the queue
\* grows by exactly one per call.
C9_OfflineSubmit ==
  [][\A c \in Clients, cid \in 1..MaxCalls :
       OfflineCall(c, cid) =>
         /\ Len(queue'[c]) = Len(queue[c]) + 1
         /\ SubSeq(queue'[c], 1, Len(queue[c])) = queue[c]
         /\ Last(queue'[c]).sessionId = calls'[cid].sessionId
         /\ Last(queue'[c]).content = calls'[cid].content
         /\ Last(queue'[c]).retryCount = 0
         /\ Last(queue'[c]).cid = cid
         /\ c2s' = c2s
         /\ Resolved(cid)']_vars

\* two offline calls were made and the queue holds their two entries in order
C9_Witness ==
  /\ ~connected[1]
  /\ calls[1].status = "queued" /\ calls[2].status = "queued"
  /\ Len(queue[1]) = 2
  /\ queue[1][1].cid = 1 /\ queue[1][2].cid = 2
  /\ queue[1][1].retryCount = 0 /\ queue[1][2].retryCount = 0

\* C10: during a flush an entry leaves the OfflineQueue only if the server
\* appended and acknowledged its segment or its retryCount reached the maximum
\* of 3; read generously, an entry whose segment:add is still on its way to
\* the server is not counted as removed without confirmation.
C10_RemovalOnlyOnAckOrExhaustion ==
  [][\A c \in Clients : \A i \in 1..Len(queue[c]) :
       LET entry == queue[c][i] IN
       (~\E j \in 1..Len(queue'[c]) : queue'[c][j].cid = entry.cid)
         => \/ entry.cid \in appended'
            \/ entry.retryCount + 1 >= maxRetries
            \/ \E m \in 1..Len(c2s'[c]) : c2s'[c][m].cid = entry.cid]_vars

\* --------------------------------------------- claims about OfflineQueue
\* the step is a call op(sessionId, timestamp) of the queue driven directly
QueueCall(op, sessionId, timestamp) ==
  /\ ret'[1] = op /\ ret'[2] = sessionId /\ ret'[3] = timestamp
  /\ (ret' # ret \/ queue' # queue \/ storage' # storage)

\* the queue without its i-th entry
Without(q, i) == SubSeq(q, 1, i - 1) \o SubSeq(q, i + 1, Len(q))

\* C11: incrementRetry called on an entry enqueued fresh returns true for the
\* first maxRetries - 1 calls made for it and false on the maxRetries-th,
\* after which the entry is gone from the queue and from storage.
C11_RetryExhaustion ==
  [][\A sessionId \in SessionIds, timestamp \in 0..MaxClientClock :
       QueueCall("incrementRetry", sessionId, timestamp) =>
         \A i \in 1..Len(queue[1]) :
           SameEntry(queue[1][i], sessionId, timestamp) =>
             IF queue[1][i].seen < maxRetries - 1
             THEN /\ ret'[4] = TRUE
                  /\ i <= Len(queue'[1])
                  /\ queue'[1][i].content = queue[1][i].content
                  /\ SameEntry(queue'[1][i], sessionId, timestamp)
             ELSE /\ ret'[4] = FALSE
                  /\ ~\E j \in 1..Len(queue'[1]) :
                        SameEntry(queue'[1][j], sessionId, timestamp)
                  /\ ~\E j \in 1..Len(storage'.text) :
                        /\ storage'.text[j].sessionId = sessionId
                        /\ parseDate(storage'.text[j].timestamp) = timestamp]_vars

\* C12: dequeue(sessionId, timestamp) of an entry that is present decreases
\* the size by exactly 1, removes that entry and leaves every other entry in
\* place and in order, whatever the queue holds.
C12_DequeueRemovesUniqueEntry ==
  [][\A sessionId \in SessionIds, timestamp \in 0..MaxClientClock :
       (QueueCall("dequeue", sessionId, timestamp)
        /\ FindEntry(queue[1], sessionId, timestamp) # 0)
         => /\ Len(queue'[1]) = Len(queue[1]) - 1
            /\ \E i \in 1..Len(queue[1]) :
                 /\ SameEntry(queue[1][i], sessionId, timestamp)
                 /\ queue'[1] = Without(queue[1], i)]_vars

\* the entries as the claim compares them
Entries(q) ==
  [i \in 1..Len(q) |->
     [sessionId |-> q[i].sessionId, content |-> q[i].content,
      retryCount |-> q[i].retryCount, timestamp |-> q[i].timestamp]]

C14_BackoffCap ==
  ret[1] = "getNextDelay" => ret[2] <= maxDelay

\* the step is a call of getNextDelay
DelayCall == ret'[1] = "getNextDelay" /\ rm' # rm

\* C15: the un-jittered component of a getNextDelay call is
\* min(baseDelay * 2^attempt, maxDelay) for the attempt at call time, it does
\* not decrease from one call to the next without a reset in between, and the
\* call increments attempt by exactly 1.
C15_BackoffGrowth ==
  [][DelayCall =>
       /\ rm'[1].attempt = rm[1].attempt + 1
       /\ ret'[3] = (IF baseDelay * (2 ^ rm[1].attempt) < maxDelay
                     THEN baseDelay * (2 ^ rm[1].attempt) ELSE maxDelay)
       /\ (ret[1] = "getNextDelay" => ret'[3] >= ret[3])]_vars

\* successive calls reached the cap: 16000 then 30000
C15_Witness ==
  /\ ret[1] = "getNextDelay" /\ ret[3] = maxDelay
  /\ rm[1].attempt = 6

\* C16: a ReconnectionManager has at most one pending reconnect timer, the one
\* it refers to; scheduleReconnect called while a timer is pending supersedes
\* it, and only the timer the manager refers to ever has its callback invoked.
C16_SinglePendingTimer ==
  /\ [](/\ Cardinality(rm[1].timers) <= 1
        /\ rm[1].timers \subseteq {rm[1].reconnectTimer})
  /\ [][invoked' \ invoked \subseteq {rm[1].reconnectTimer}]_vars
  /\ [][(ret'[1] = "scheduleReconnect" /\ rm' # rm)
          => rm'[1].timers \cap rm[1].timers = {}]_vars

\* scheduleReconnect was called while a timer was pending; the first timer
\* never ran and the second is the only one pending
C16_Witness ==
  /\ ret[1] = "scheduleReconnect" /\ ret[2] = TRUE
  /\ rm[1].timers = {2}
  /\ invoked = {}

\* the step is a call of scheduleReconnect with the attempts used up
CallAtLimit ==
  /\ ret'[1] = "scheduleReconnect"
  /\ rm[1].attempt >= maxAttempts
  /\ (ret' # ret \/ rm' # rm)

\* C17, as stated: when attempt >= maxAttempts, scheduleReconnect(callback)
\* is a no-op, it changes nothing in the manager.
C17_NoOpAtLimit ==
  [][CallAtLimit => rm' = rm /\ invoked' = invoked]_vars

\* C17, amended: when attempt >= maxAttempts, scheduleReconnect(callback) arms
\* no timer, invokes no callback and leaves the attempt counter unchanged, and
\* it cancels the timer that was pending, if any.
C17_ScheduleAtLimit ==
  [][CallAtLimit =>
       /\ rm'[1].timers = {}
       /\ rm'[1].nextTimer = rm[1].nextTimer
       /\ rm'[1].attempt = rm[1].attempt
       /\ invoked' = invoked]_vars

\* scheduleReconnect was called with the attempts used up and a timer pending
C17_Witness ==
  /\ ret[1] = "scheduleReconnect" /\ ret[2] = TRUE /\ ret[3] = TRUE
  /\ rm[1].attempt >= maxAttempts
  /\ rm[1].timers = {}

\* ------------------------------------------------- claims about reconnection
\* the connection is up again: attempt counter back at 0, status connected
Succeeded ==
  connected[1] /\ rm[1].attempt = 0 /\ status[1] = "connected"

\* the attempts are used up: no timer pending, no attempt under way
GaveUp ==
  /\ ~connected[1] /\ rm[1].attempt >= maxAttempts
  /\ rm[1].timers = {} /\ ~connecting[1]

\* C18: while the connection is down and the client has not given up, a
\* reconnect attempt is scheduled or under way; no outage has more than
\* maxAttempts scheduled attempts; and every outage eventually ends with the
\* connection up (attempt 0, status connected) or with the attempts used up
\* (no timer pending, no attempt scheduled).
C18_ReconnectOutcome ==
  /\ [](rm[1].attempt <= maxAttempts)
  /\ []((~connected[1] /\ ~GaveUp) => (rm[1].timers # {} \/ connecting[1]))
  /\ [](connected[1] => Succeeded)
  /\ (~connected[1] ~> (Succeeded \/ GaveUp))

\* after a transport drop, ten scheduled attempts failed and the client gave up
C18_Witness ==
  /\ ndrops = 1 /\ GaveUp
  /\ Cardinality(invoked) >= maxAttempts
  /\ status[1] = "disconnected"

\* the client created S and was told so: session:created gave it the pair
Created(S) ==
  /\ context[1].sessionId = S /\ context[1].participantId # 0

\* the client joined S, a session another participant created, and the server
\* handled the join
Joined(S) ==
  /\ context[1].sessionId = S
  /\ sessions[S].participants[1].name # UserName(1)
  /\ \E i \in 1..Len(sessions[S].participants) :
       sessions[S].participants[i].name = UserName(1)

\* C19: after a transport drop and a successful reconnect, once the server has
\* handled everything the client emitted on reconnecting, a client that had
\* created or joined live session S is a member of room S again.
C19_RoomMembershipReestablished ==
  \A S \in SessionIds :
    (/\ ndrops >= 1 /\ connected[1] /\ c2s[1] = <<>>
     /\ HasSession(S) /\ (Created(S) \/ Joined(S)))
      => S \in rooms[1]

\* ------------------------------------------------- claims about the AI cadence
\* how many segments of the log were contributed by users
UserCount(segs) ==
  Cardinality({i \in 1..Len(segs) : segs[i].contributorType = "user"})

\* the step appended a user segment to session s
UserAppend(s) ==
  /\ HasSession(s) /\ s \in DOMAIN sessions'
  /\ UserCount(sessions'[s].segments) = UserCount(sessions[s].segments) + 1

\* C20: the generator is invoked exactly once by each step that appends a user
\* segment bringing the session's user-contributed segments to a positive
\* multiple of 3 and by no other step, so that the invocations made for a
\* session equal floor(userSegments / 3), AI segments not counted.
C20_AITriggerCadence ==
  /\ [](\A s \in DOMAIN sessions :
          aiCalls[s] = UserCount(sessions[s].segments) \div 3)
  /\ [][\A s \in SessionIds :
          aiCalls'[s] - aiCalls[s] =
            IF UserAppend(s) /\ UserCount(sessions'[s].segments) % 3 = 0
            THEN 1 ELSE 0]_vars

\* six user segments with an AI segment among the first four: the generator
\* was invoked for the third and for the sixth user segment
C20_Witness ==
  /\ HasSession(1)
  /\ UserCount(sessions[1].segments) = 6
  /\ \E i \in 1..4 : sessions[1].segments[i].contributorType = "ai"
  /\ aiCalls[1] = 2

\* ------------------------------------------- claims about errors of the gateway
\* the step is a generator call for session s settling with a failure
AIFails(s) == aiTasks'[s] = aiTasks[s] - 1 /\ nextSegId' = nextSegId

AIError == ErrorEv("AI_GENERATION_ERROR", 0)

\* connection c has been sent the failure notice of an AI call
SawAIError(c) == \E i \in 1..Len(inbox[c]) : inbox[c][i] = AIError

\* C21: a generator call that fails sends error{AI_GENERATION_ERROR} to every
\* connection in the room and to no other, appends no AI segment and leaves
\* every log as it was, so the triggering user segment stays; nothing sent
\* before is taken back; and a user segment appended after a failure is
\* announced and acknowledged to its sender like any other.
C21_AIFailureNonFatal ==
  /\ [][\A s \in SessionIds : AIFails(s) =>
          /\ sessions' = sessions
          /\ \A c \in Conns :
               inbox'[c] = IF s \in rooms[c] THEN Append(inbox[c], AIError)
                           ELSE inbox[c]]_vars
  /\ [][\A s \in SessionIds, c \in Conns :
          (SawAIError(c) /\ UserAppend(s) /\ s \in rooms[c]
             /\ Last(sessions'[s].segments).contributorId = sockData[c].participantId)
           => /\ Len(inbox'[c]) >= Len(inbox[c]) + 2
              /\ Last(inbox'[c]).type = "segment:acknowledged"
              /\ inbox'[c][Len(inbox[c]) + 1].type = "segment:added"
              /\ \E p \in 1..Len(sessions'[s].segments) :
                   sessions'[s].segments[p] = inbox'[c][Len(inbox[c]) + 1].segs[1]]_vars

\* the third user segment's AI call failed, both connections in the room were
\* told, and the sender then had a fourth segment appended and acknowledged
C21_Witness ==
  /\ HasSession(1)
  /\ UserCount(sessions[1].segments) = 4
  /\ Len(sessions[1].segments) = 4
  /\ \A c \in Conns : SawAIError(c)
  /\ Last(inbox[1]).type = "segment:acknowledged"
  /\ aiTasks[1] = 0

\* the step is the gateway handling the event ev
Req(ev) == nreq' = nreq + 1 /\ ret'[1] = ev

\* contents that must not pass: empty, blank, markup only, too long, profane
RejectedContents ==
  {<<>>, <<" ">>, <<"<b>">>, <<"LONG">>, <<"damn">>, <<"A", " ", "crap">>}

ValidationError == ErrorEv("CONTENT_VALIDATION_ERROR", 0)

\* connection c has had a segment:add rejected
WasRejected(c) == \E i \in 1..Len(inbox[c]) : inbox[c][i] = ValidationError

\* C22: a segment:add with content that fails validation sends
\* error{CONTENT_VALIDATION_ERROR} to the requesting connection and nothing to
\* any other, appends no segment and changes no log; and a connection that was
\* rejected and then submits content that is in order, for a live session, has
\* it appended and acknowledged.
C22_ValidationRejection ==
  /\ [][(Req("segment:add") /\ ret'[4] \in RejectedContents) =>
          /\ inbox'[ret'[2]] = Append(inbox[ret'[2]], ValidationError)
          /\ \A d \in Conns \ {ret'[2]} : inbox'[d] = inbox[d]
          /\ sessions' = sessions /\ nextSegId' = nextSegId
          /\ rooms' = rooms]_vars
  /\ [][(/\ Req("segment:add") /\ ret'[4] = <<"A">>
         /\ HasSession(ret'[3]) /\ WasRejected(ret'[2])) =>
          /\ Len(sessions'[ret'[3]].segments) = Len(sessions[ret'[3]].segments) + 1
          /\ Last(sessions'[ret'[3]].segments).content = <<"A">>
          /\ Last(inbox'[ret'[2]]).type = "segment:acknowledged"]_vars

\* connection 1 was rejected, then had corrected content appended; connection 2,
\* in the same room, was sent the one segment and no error
C22_Witness ==
  /\ ret = <<"segment:add", 1, 1, <<"A">>>>
  /\ WasRejected(1)
  /\ HasSession(1) /\ Len(sessions[1].segments) = 1
  /\ Last(inbox[1]).type = "segment:acknowledged"
  /\ 1 \in rooms[2]
  /\ \A i \in 1..Len(inbox[2]) : inbox[2][i].type # "error"

\* the step handles a request that names no live session: one of the five
\* events that carry a session id, or invite:validate with a token that is
\* unknown or that points at a session no longer live
NotFoundRequest ==
  \/ /\ \/ Req("session:join") \/ Req("session:reconnect") \/ Req("segment:add")
        \/ Req("session:export") \/ Req("invite:generate")
     /\ ~HasSession(ret'[3])
  \/ /\ Req("invite:validate")
     /\ \/ ret'[3] \notin DOMAIN inviteTokens
        \/ ~HasSession(inviteTokens[ret'[3]])

\* the error code the request is answered with
NotFoundCode ==
  IF ret'[1] = "segment:add" /\ ret'[4] \in RejectedContents
  THEN "CONTENT_VALIDATION_ERROR"
  ELSE IF ret'[1] = "invite:validate" /\ ret'[3] \notin DOMAIN inviteTokens
  THEN "INVALID_INVITE_TOKEN"
  ELSE "SESSION_NOT_FOUND"

\* C23: a request that names no live session, or an unknown invite token, is
\* answered with one error event to the requesting connection; no other
\* connection is sent anything, and the registry, the invite tokens and every
\* connection's room membership stay as they were.
C23_NotFoundPrivate ==
  [][NotFoundRequest =>
       /\ inbox'[ret'[2]] = Append(inbox[ret'[2]], ErrorEv(NotFoundCode, 0))
       /\ \A d \in Conns \ {ret'[2]} : inbox'[d] = inbox[d]
       /\ sessions' = sessions /\ sessionTimers' = sessionTimers
       /\ nextSession' = nextSession /\ nextSegId' = nextSegId
       /\ inviteTokens' = inviteTokens
       /\ rooms' = rooms /\ sockData' = sockData]_vars

\* connection 2 asked to join a session that had expired: it got the error,
\* and connection 1, still in that room, got nothing
C23_Witness ==
  /\ ret[1] = "session:join" /\ ret[2] = 2 /\ ret[3] = 1
  /\ nextSession = 1 /\ ~HasSession(1)
  /\ Last(inbox[2]) = ErrorEv("SESSION_NOT_FOUND", 0)
  /\ rooms[1] = {1} /\ rooms[2] = {}
  /\ Len(inbox[1]) = 1

\* ------------------------------------------------ claims about the roster
\* the names on the roster of session s
RosterNames(s) ==
  {sessions[s].participants[i].name : i \in 1..Len(sessions[s].participants)}

\* C24: no session's participant list holds two participants with the same
\* name, whatever session:create, session:join and session:reconnect events
\* were handled; and a join that carries a name already on the roster, from
\* whichever connection, leaves the roster as it was.
C24_RosterDeduplication ==
  /\ [](\A s \in DOMAIN sessions :
          \A i, j \in 1..Len(sessions[s].participants) :
            sessions[s].participants[i].name = sessions[s].participants[j].name
              => i = j)
  /\ [][(/\ Req("session:join") /\ HasSession(ret'[3])
         /\ (IF ret'[4] = "" THEN "Anonymous" ELSE ret'[4]) \in RosterNames(ret'[3]))
          => sessions'[ret'[3]].participants = sessions[ret'[3]].participants]_vars

\* connection 2 joined under the name connection 1 created the session with:
\* it is in the room, and the roster still has the one entry of connection 1
C24_Witness ==
  /\ ret = <<"session:join", 2, 1, "ann">>
  /\ HasSession(1) /\ 1 \in rooms[2]
  /\ Len(sessions[1].participants) = 1
  /\ sessions[1].participants[1] = [id |-> 1, name |-> "ann"]

\* ------------------------------------------------ claims about the registry
\* C25: every session, from its creation on, is eventually evicted once the
\* calls on it stop: its inactivity timer fires and getSession no longer finds
\* it.
C25_IdleEviction ==
  \A s \in SessionIds : HasSession(s) ~> ~HasSession(s)

\* The id a StoryManager call was made with: addParticipant and addSegment
\* return nothing, so ret holds the call alone; getSession and exportSession
\* record the id after their result.
CalledId ==
  IF ret'[1] \in {"addParticipant", "addSegment"} THEN ret'[2]
  ELSE IF ret'[1] \in {"getSession", "exportSession", "throw"} THEN ret'[3]
  ELSE 0

\* What the caller is handed says there is no such session: the thrown
\* 'Session not found', or getSession's undefined.
ReportsNotFound ==
  \/ ret'[1] = "throw" /\ ret'[2] = "Session not found"
  \/ ret'[1] = "getSession" /\ ret'[2] = NoSession

\* C26: every StoryManager operation called with an id of no live session
\* (getSession, addParticipant, addSegment, exportSession) reports to its
\* caller that the session was not found, and leaves the registry unchanged.
C26_RegistryFailure ==
  [][(CalledId # 0 /\ ~HasSession(CalledId))
       => /\ ReportsNotFound
          /\ sessions' = sessions
          /\ sessionTimers' = sessionTimers]_vars

Received(d) == SubSeq(inbox'[d], Len(inbox[d]) + 1, Len(inbox'[d]))

\* a session:join of connection c for the live session s is handled
JoinSucceeds(c, s) ==
  /\ Req("session:join") /\ ret'[2] = c /\ ret'[3] = s
  /\ HasSession(s)

\* C28: on a successful session:join the joining connection receives
\* session:updated and no participant:joined, and every other connection
\* already in the room receives exactly one participant:joined, naming the
\* joiner.
C28_JoinNotification ==
  [][\A c \in Conns, s \in SessionIds :
       JoinSucceeds(c, s) =>
         /\ Len(Received(c)) = 1
         /\ Received(c)[1].type = "session:updated" /\ Received(c)[1].sid = s
         /\ \A d \in Conns \ {c} :
              s \in rooms[d] =>
                /\ Len(Received(d)) = 1
                /\ Received(d)[1].type = "participant:joined"
                /\ Received(d)[1].sid = s
                /\ Received(d)[1].parts[1].id = c]_vars

\* connection 2 has just joined the session connection 1 created: 1 holds the
\* notification and 2 the session
C28_Witness ==
  /\ ret[1] = "session:join" /\ ret[2] = 2
  /\ ret[3] \in rooms[1] \cap rooms[2]
  /\ Len(inbox[1]) > 0 /\ Len(inbox[2]) > 0
  /\ inbox[1][Len(inbox[1])].type = "participant:joined"
  /\ inbox[1][Len(inbox[1])].parts[1].id = 2
  /\ inbox[2][Len(inbox[2])].type = "session:updated"

\* validate(token) gives the same answer before and after the step, for every
\* token but the excepted ones
ValidityKept(except) ==
  \A u \in TokenIds \ except :
    validateInviteToken(inviteTokens', u) = validateInviteToken(inviteTokens, u)

\* C29: a token validates to session S exactly when it was generated for S and
\* not revoked since: generating makes the token of the returned link, invalid
\* until then, validate to the session it was generated for; revoking makes
\* the token invalid; validate answers from the store without changing it; and
\* no operation changes what any other token validates to.
C29_InviteRoundTrip ==
  [][/\ (ret'[1] = "generateInviteLink" =>
           LET token == extractTokenFromLink(ret'[2]) IN
             /\ validateInviteToken(inviteTokens, token) = 0
             /\ validateInviteToken(inviteTokens', token) = ret'[3]
             /\ ValidityKept({token}))
     /\ (ret'[1] = "revokeInviteToken" =>
             /\ validateInviteToken(inviteTokens', ret'[3]) = 0
             /\ ValidityKept({ret'[3]}))
     /\ (ret'[1] = "validateInviteToken" =>
             /\ ret'[2] = (IF ret'[3] \in DOMAIN inviteTokens
                           THEN inviteTokens[ret'[3]] ELSE 0)
             /\ ValidityKept({}))]_vars

\* three tokens were generated for session 1, the first was revoked, and the
\* second has just been validated to session 1 while the third is still stored
C29_Witness ==
  /\ ret = <<"validateInviteToken", 1, 2>>
  /\ nextToken = 3
  /\ DOMAIN inviteTokens = {2, 3}
  /\ inviteTokens[3] = 1

Exported(c, s) ==
  /\ Len(inbox'[c]) = Len(inbox[c]) + 1
  /\ inbox'[c][Len(inbox'[c])].type = "session:exported"
  /\ inbox'[c][Len(inbox'[c])].sid = s

\* C31: the export of a session with N segments, in either format, holds the
\* session title and N entries, the i-th with the content of the i-th
\* segment of the log.
C31_ExportCompleteness ==
  [][\A c \in Conns, s \in DOMAIN sessions :
       Exported(c, s) =>
         LET out == inbox'[c][Len(inbox'[c])].content IN
           /\ out.title = sessions[s].title
           /\ Len(out.body) = Len(sessions[s].segments)
           /\ \A i \in 1..Len(out.body) :
                out.body[i].content = sessions[s].segments[i].content]_vars

\* an export of a log of two or more segments that differ in content
C31_Witness ==
  \E c \in Conns : \E i \in 1..Len(inbox[c]) :
    /\ inbox[c][i].type = "session:exported"
    /\ Len(inbox[c][i].content.body) >= 2
    /\ inbox[c][i].content.body[1].content # inbox[c][i].content.body[2].content

\* disconnect() was the last local call of client c
Disposed(c) == ret = <<"disconnect", c>>

\* after disconnect(): nothing pending, nothing under way, status disconnected
Quiet(c) ==
  /\ rm[c].timers = {} /\ rm[c].reconnectTimer = 0
  /\ ~connected[c] /\ ~connecting[c]
  /\ status[c] = "disconnected"

FailedCalls == {i \in 1..Len(gen.outcomes) : gen.outcomes[i] # "content"}

\* C33: for one trigger generateHorrorElement calls the provider at most 3
\* times, no call follows a successful one, it resolves only on a successful
\* call and, with a model, rejects only after the third failed call; and once
\* called it always settles.
C33_AIRetryBound ==
  /\ [](/\ Len(gen.outcomes) <= 3
        /\ \A i \in 1..Len(gen.outcomes) :
             gen.outcomes[i] = "content" =>
               i = Len(gen.outcomes) /\ gen.phase = "resolved"
        /\ gen.phase = "resolved" =>
             Len(gen.outcomes) >= 1 /\ gen.outcomes[Len(gen.outcomes)] = "content"
        /\ (gen.phase = "rejected" /\ gen.model) => Cardinality(FailedCalls) = 3)
  /\ (gen.phase \in {"calling", "sleeping"} ~> gen.phase \in {"resolved", "rejected"})

\* the call resolved on its third attempt, after a blocked and an empty answer
C33_Witness ==
  /\ gen.phase = "resolved"
  /\ gen.outcomes = <<"blocked", "empty", "content">>

\* where in its inbox connection k holds the snapshots of session S
Snapshots(k, S) ==
  {p \in 1..Len(inbox[k]) :
     inbox[k][p].type \in {"session:created", "session:updated"} /\ inbox[k][p].sid = S}

\* the latest of them
LastSnapshot(k, S) ==
  CHOOSE p \in Snapshots(k, S) : \A q \in Snapshots(k, S) : q <= p

\* the segment is in the snapshot at position p of k's inbox
InSnapshot(k, p, segment) ==
  \E i \in 1..Len(inbox[k][p].segs) : inbox[k][p].segs[i] = segment

\* a segment:added after position p of k's inbox delivers the segment
AddedAfter(k, S, p, segment) ==
  \E q \in (p + 1)..Len(inbox[k]) :
    /\ inbox[k][q].type = "segment:added" /\ inbox[k][q].sid = S
    /\ inbox[k][q].segs[1] = segment

C35_NoDuplicateAppend ==
  \A S \in DOMAIN sessions :
    \A i, j \in 1..Len(sessions[S].segments) :
      (i < j /\ sessions[S].segments[i].cid # 0)
        => sessions[S].segments[i].cid # sessions[S].segments[j].cid

\* C36: incrementRetry(sessionId, timestamp) made for a queued entry changes
\* the retryCount of that entry only and removes no other entry: the queue
\* after the call is the queue before it with that one entry bumped, or, on
\* the entry's own third failure, without that one entry.
C36_PerEntryRetry ==
  [][\A sessionId \in SessionIds, timestamp \in 0..MaxClientClock :
       (QueueCall("incrementRetry", sessionId, timestamp)
        /\ FindEntry(queue[1], sessionId, timestamp) # 0)
         => LET i == FindEntry(queue[1], sessionId, timestamp) IN
            Entries(queue'[1]) =
              IF queue[1][i].retryCount + 1 >= maxRetries
              THEN Entries(Without(queue[1], i))
              ELSE Entries([queue[1] EXCEPT ![i].retryCount = @ + 1])]_vars

\* C37: with two OfflineQueue instances on one storage key, the stored queue
\* holds every entry either instance enqueued and has not since dequeued or
\* exhausted, that is, every entry an instance still holds in its queue.
C37_SharedStorageComplete ==
  \A k \in Instances :
    \A i \in 1..Len(queue[k]) :
      \E j \in 1..Len(storage.text) : storage.text[j].cid = queue[k][i].cid

\* C38: a connection is a member of at most one session room, that of the
\* session it most recently created, joined or rejoined.
C38_RoomExclusivity ==
  \A c \in Conns : rooms[c] \subseteq {sockData[c].sessionId}

\* C39: every segment a connection is sent in a segment:added event, user or
\* AI, is in the log of the event's session when the event is emitted.
C39_BroadcastsReflectLog ==
  [][\A d \in Conns :
       \A p \in 1..Len(Received(d)) :
         Received(d)[p].type = "segment:added"
           => /\ Received(d)[p].sid \in DOMAIN sessions'
              /\ \E i \in 1..Len(sessions'[Received(d)[p].sid].segments) :
                   sessions'[Received(d)[p].sid].segments[i].id
                     = Received(d)[p].segs[1].id]_vars

\* C40: the promise of a send rejects only on the server's error for that
\* very contribution: when an addSegment call turns rejected, the error event
\* the client is handling was raised for that call.
C40_ErrorAttribution ==
  [][\A c \in Clients, k \in 1..MaxCalls :
       (k \in directs[c] /\ calls'[k].status = "rejected")
         => /\ s2c[c] # <<>>
            /\ Head(s2c[c]).cid = k]_vars

====
